---------------------------- MODULE Spec2Model ----------------------------
(***************************************************************************)
(* Text overlay tool: line wrapping, box-fit layout, the four render       *)
(* paths, and the region collection of the main window.                    *)
(*                                                                         *)
(* Characters are Unicode code points (integers), a string is a sequence   *)
(* of code points, a list of lines is a sequence of strings.               *)
(***************************************************************************)
EXTENDS Integers, Sequences, FiniteSets, TLC

VARIABLES
    \* ---- wrap functions (text_renderer.py / ImageCanvas) ----
    wText,        \* the text argument
    wMaxWidth,    \* the max_width argument
    wFontSize,    \* the font_size argument
    wFont,        \* the font handle argument
    wImgFail,     \* whether allocating the scratch image fails in this call
    wPc,          \* "ready", or the function that produced wResult
    wResult,      \* outcome of the call
    wAgain,       \* a second call of the same function, for comparison
    \* ---- box-fit layout of one region by one render path ----
    lRegion,      \* the region's text and style fields
    lBox,         \* region.target_bbox
    lImg,         \* size of the target image
    lPath,        \* "ready", or the path that produced lOut
    lOut,         \* the layout that path computed
    \* ---- main window: region collection, target image, preview ----
    text_regions,            \* TextOverlayTool.text_regions
    jp_image_list,           \* files of the selected target folder
    jp_current_image_index,  \* index into jp_image_list (1-based here)
    jp_image_path,           \* path of the loaded target image, <<>> if none
    selected_text_index,     \* ImageCanvas.selected_text_index (0 = none)
    dragMode,                \* "none", "moving" or "resizing"
    pixmap,                  \* what the target canvas shows
    written,                 \* file written by the handler that just ran
    \* ---- geometry of one region's box on the target canvas ----
    gImg,         \* size of the loaded target image
    gBox,         \* region.target_bbox, <<>> while unset
    gOwned,       \* region.image_filename names the loaded image
    gSelected,    \* the canvas selection is this region
    gMode,        \* "none", "moving" or "resizing"
    gHandle,      \* resize_handle, "" if none
    gStart,       \* <<pointer, box>> at the start of the gesture, or <<>>
    gEdit,        \* the handler that last wrote the box
    gWrites,      \* how many times the box has been written
    \* ---- stroke of one region under the edit dialog ----
    stroke_color,       \* region.stroke_color, <<>> for None
    stroke_width,       \* region.stroke_width
    stroke_width_spin,  \* value of the dialog's spin box
    dialog,             \* "closed" or "open"
    eLast,              \* the handler that ran last
    ePrev,              \* the stroke before that handler ran
    eOpened,            \* the stroke when the dialog was last opened
    \* ---- one render of the regions of the loaded image, with failures ----
    fFaults,      \* per region, where rendering it raises ("none" if nowhere)
    fPath,        \* "ready", or the path that produced fOut
    fOut,         \* what that render left
    \* ---- cloud OCR: the worker thread and the interaction thread ----
    vision_ocr_btn,   \* whether the OCR button is enabled
    vision_client,    \* ocr_engine.vision_client: "none" or "client"
    kr_image_path,    \* the source image, <<>> if none is loaded
    default_font_size,\* the font size new regions get
    ocr_thread,       \* how many worker threads were started and have not emitted
    signals,          \* signals emitted and not yet delivered, oldest first
    message_box,      \* the modal message boxes on screen, the top one last
    oRuns,            \* how many runs were started, how many outcomes delivered
    oTouched,         \* the threads that have read or written text_regions
    oLast,            \* the last outcome delivered and the regions before it
    \* ---- merging table rows ----
    mLast,            \* the last merge: the rows selected and the list before it
    \* ---- resolving a font ----
    fontIn,           \* the family, size and bold level asked for, the registry, the files
    fontOut,          \* the resolver called and what it gave
    \* ---- the clock of the pointer-move throttle ----
    startOfRun,           \* the time of day, in ms, at which the canvas was created
    elapsed,              \* ms since then
    _last_resize_update,  \* the canvas attribute, NoStamp while it does not exist
    _last_move_update,    \* the canvas attribute, NoStamp while it does not exist
    recomputedAt,         \* per gesture kind, elapsed at its last recompute
    tLast                 \* the last pointer-move: when, and whether it recomputed

wrapVars ==
    <<wText, wMaxWidth, wFontSize, wFont, wImgFail, wPc, wResult, wAgain>>
layoutVars == <<lRegion, lBox, lImg, lPath, lOut>>
appVars ==
    <<text_regions, jp_image_list, jp_current_image_index, jp_image_path,
      selected_text_index, dragMode, pixmap, written>>

geomVars ==
    <<gImg, gBox, gOwned, gSelected, gMode, gHandle, gStart, gEdit, gWrites>>

editVars ==
    <<stroke_color, stroke_width, stroke_width_spin, dialog, eLast, ePrev, eOpened>>

faultVars == <<fFaults, fPath, fOut>>
ocrVars ==
    <<vision_ocr_btn, vision_client, kr_image_path, default_font_size, ocr_thread,
      signals, message_box, oRuns, oTouched, oLast>>

mergeVars == <<mLast>>
fontVars == <<fontIn, fontOut>>
throttleVars ==
    <<startOfRun, elapsed, _last_resize_update, _last_move_update, recomputedAt, tLast>>

\* the groups of the later sections
otherVars == <<mergeVars, fontVars, throttleVars>>

vars ==
    <<wrapVars, layoutVars, appVars, geomVars, editVars, faultVars, ocrVars,
      otherVars>>

\* What the actions of one group leave alone.
notWrap ==
    <<layoutVars, appVars, geomVars, editVars, faultVars, ocrVars,
      otherVars>>
notLayout ==
    <<wrapVars, appVars, geomVars, editVars, faultVars, ocrVars,
      otherVars>>
notApp ==
    <<wrapVars, layoutVars, geomVars, editVars, faultVars, ocrVars,
      otherVars>>
notGeom ==
    <<wrapVars, layoutVars, appVars, editVars, faultVars, ocrVars,
      otherVars>>
notEdit ==
    <<wrapVars, layoutVars, appVars, geomVars, faultVars, ocrVars,
      otherVars>>
notFault ==
    <<wrapVars, layoutVars, appVars, geomVars, editVars, ocrVars,
      otherVars>>
notFont ==
    <<wrapVars, layoutVars, appVars, geomVars, editVars, faultVars, ocrVars,
      mergeVars, throttleVars>>
\* merge_selected_lines writes the list and the canvas
notMerge ==
    <<wrapVars, layoutVars, geomVars, editVars, faultVars, ocrVars, fontVars,
      throttleVars, jp_image_list, jp_current_image_index, jp_image_path>>
\* mouseMoveEvent writes the box and the throttle stamps
notThrottle ==
    <<wrapVars, layoutVars, appVars, editVars, faultVars, ocrVars, mergeVars,
      fontVars>>
\* the OCR handlers write text_regions and leave the rest of the window alone
notOcr ==
    <<wrapVars, layoutVars, geomVars, editVars, faultVars, jp_image_list,
      jp_current_image_index, jp_image_path, selected_text_index, dragMode, pixmap,
      written, otherVars>>

-----------------------------------------------------------------------------
(* Bounds of the model *)

MaxLen == 4

-----------------------------------------------------------------------------
(* Characters *)

NL == 10
SPACE == 32
LatinA == 97
LatinB == 98
HangulGa == 44032

Alphabet == {NL, SPACE, LatinA, LatinB, HangulGa}

\* str.isspace() on the characters of the alphabet (and the other ASCII blanks)
IsSpace(c) == c \in {9, 10, 11, 12, 13, 28, 29, 30, 31, 32}

\* _is_korean: '가' <= c <= '힯' or 'ᄀ' <= c <= 'ᇿ'
\*             or '㄰' <= c <= '㆏'
_is_korean(c) ==
    \/ (44032 <= c /\ c <= 55215)
    \/ (4352 <= c /\ c <= 4607)
    \/ (12592 <= c /\ c <= 12687)

\* text.strip() == ""
IsBlank(s) == \A k \in 1..Len(s) : IsSpace(s[k])

RECURSIVE SeqsUpTo(_, _)
SeqsUpTo(S, n) ==
    IF n = 0 THEN {<<>>}
    ELSE LET shorter == SeqsUpTo(S, n - 1)
         IN  shorter \cup {Append(s, c) : s \in {t \in shorter : Len(t) = n - 1}, c \in S}

RECURSIVE Concat(_)
Concat(ls) == IF ls = <<>> THEN <<>> ELSE Head(ls) \o Concat(Tail(ls))

\* the non-whitespace characters of s, in order
RECURSIVE NonSpace(_)
NonSpace(s) ==
    IF s = <<>> THEN <<>>
    ELSE IF IsSpace(Head(s)) THEN NonSpace(Tail(s))
         ELSE <<Head(s)>> \o NonSpace(Tail(s))

RECURSIVE NonNewline(_)
NonNewline(s) ==
    IF s = <<>> THEN <<>>
    ELSE IF Head(s) = NL THEN NonNewline(Tail(s))
         ELSE <<Head(s)>> \o NonNewline(Tail(s))

-----------------------------------------------------------------------------
(* Text measurer *)

\* Advance width of one glyph at a pixel size: a full-width Hangul glyph is
\* one em, a Latin glyph half an em, a blank a third of an em.
GlyphAdvance(c, size) ==
    IF _is_korean(c) THEN size
    ELSE IF IsSpace(c) THEN size \div 3
    ELSE size \div 2

RECURSIVE SumAdvance(_, _)
SumAdvance(s, size) ==
    IF s = <<>> THEN 0 ELSE GlyphAdvance(Head(s), size) + SumAdvance(Tail(s), size)

\* draw.textlength(line, font=font) for a font handle that measures
textlength(line, font) == SumAdvance(line, font.size)

\* the fallback estimate: len(test_line) * font_size * 0.6 <= max_width
EstimateFits(line, font_size, max_width) == Len(line) * font_size * 6 <= max_width * 10

\* width <= max_width with the width measured, or estimated when measuring raises
MeasuredFits(line, font_size, font, max_width) ==
    IF font.ok THEN textlength(line, font) <= max_width
    ELSE EstimateFits(line, font_size, max_width)

-----------------------------------------------------------------------------
(* wrap_text_for_box: character/word-boundary wrap *)

\* index just past the run of non-blank, non-Korean characters starting at i
RECURSIVE WordEnd(_, _)
WordEnd(text, i) ==
    IF i > Len(text) \/ IsSpace(text[i]) \/ _is_korean(text[i]) THEN i
    ELSE WordEnd(text, i + 1)

\* the local variable `word` before its first assignment
NoWord == [bound |-> FALSE, v |-> <<>>]

\* the if/else under "width <= max_width": `unit` is
\* "char if _is_korean(char) else word", which raises when word is unbound
PlaceUnit(lines, cur, test, fits, unitOk, unit) ==
    IF fits THEN [raised |-> FALSE, lines |-> lines, cur |-> test]
    ELSE IF cur # <<>>
         THEN IF unitOk
              THEN [raised |-> FALSE, lines |-> Append(lines, cur), cur |-> unit]
              ELSE [raised |-> TRUE, lines |-> Append(lines, cur), cur |-> cur]
         ELSE IF unitOk
              THEN [raised |-> FALSE, lines |-> Append(lines, unit), cur |-> <<>>]
              ELSE [raised |-> TRUE, lines |-> lines, cur |-> cur]

\* the inner try/except of one loop iteration
MeasureAndPlace(lines, cur, test, unitOk, unit, max_width, font_size, font, imgFail) ==
    LET t == IF imgFail \/ ~font.ok
             THEN [raised |-> TRUE, lines |-> lines, cur |-> cur]
             ELSE PlaceUnit(lines, cur, test, textlength(test, font) <= max_width,
                            unitOk, unit)
    IN  IF t.raised
        THEN PlaceUnit(t.lines, t.cur, test, EstimateFits(test, font_size, max_width),
                       unitOk, unit)
        ELSE t

\* the while loop, from index i (1-based) with the locals lines, current_line, word
RECURSIVE WrapBoxLoop(_, _, _, _, _, _, _, _, _)
WrapBoxLoop(text, i, lines, cur, word, max_width, font_size, font, imgFail) ==
    IF i > Len(text)
    THEN [raised |-> FALSE, lines |-> IF cur # <<>> THEN Append(lines, cur) ELSE lines]
    ELSE LET char == text[i]
         IN  IF char = NL
             THEN WrapBoxLoop(text, i + 1, Append(lines, cur), <<>>, word,
                              max_width, font_size, font, imgFail)
             ELSE LET isK   == _is_korean(char)
                      isRun == ~isK /\ ~IsSpace(char)
                      j     == IF isRun THEN WordEnd(text, i) ELSE i + 1
                      w     == IF isRun THEN [bound |-> TRUE, v |-> SubSeq(text, i, j - 1)]
                               ELSE word
                      test  == cur \o (IF isRun THEN w.v ELSE <<char>>)
                      r     == MeasureAndPlace(lines, cur, test, isK \/ w.bound,
                                               IF isK THEN <<char>> ELSE w.v,
                                               max_width, font_size, font, imgFail)
                  IN  IF r.raised THEN [raised |-> TRUE, lines |-> r.lines]
                      ELSE WrapBoxLoop(text, j, r.lines, r.cur, w,
                                       max_width, font_size, font, imgFail)

\* the loop run with no blank-text test before it
WrapBoxBody_NoBlankTest(text, max_width, font_size, font, imgFail) ==
    LET r == WrapBoxLoop(text, 1, <<>>, <<>>, NoWord, max_width, font_size, font, imgFail)
    IN  IF r.raised THEN r
        ELSE [raised |-> FALSE, lines |-> IF r.lines # <<>> THEN r.lines ELSE <<text>>]

\* the body of the outer try
WrapBoxBody(text, max_width, font_size, font, imgFail) ==
    IF IsBlank(text) THEN [raised |-> FALSE, lines |-> <<<<>>>>]
    ELSE LET r == WrapBoxLoop(text, 1, <<>>, <<>>, NoWord, max_width, font_size, font, imgFail)
         IN  IF r.raised THEN r
             ELSE [raised |-> FALSE, lines |-> IF r.lines # <<>> THEN r.lines ELSE <<text>>]

\* the body run with no outer handler around it
wrap_text_for_box_NoHandler(text, max_width, font_size, font, imgFail) ==
    LET b == WrapBoxBody(text, max_width, font_size, font, imgFail)
    IN  [propagated |-> b.raised, failed |-> b.raised, lines |-> b.lines]

\* outcome of a call: `failed` records that the outer handler ran
wrap_text_for_box(text, max_width, font_size, font, imgFail) ==
    LET b == WrapBoxBody(text, max_width, font_size, font, imgFail)
    IN  [propagated |-> FALSE, failed |-> b.raised,
         lines |-> IF b.raised THEN <<text>> ELSE b.lines]

-----------------------------------------------------------------------------
(* wrap_text_for_overlay_safe_word: word-boundary wrap *)

Max(a, b) == IF a >= b THEN a ELSE b
Min(a, b) == IF a <= b THEN a ELSE b

\* text.split('\n'): acc are the finished pieces, cur the piece being read
RECURSIVE SplitLines(_, _, _)
SplitLines(s, acc, cur) ==
    IF s = <<>> THEN Append(acc, cur)
    ELSE IF Head(s) = NL THEN SplitLines(Tail(s), Append(acc, cur), <<>>)
         ELSE SplitLines(Tail(s), acc, Append(cur, Head(s)))

\* paragraph.split(): maximal runs of non-blank characters
RECURSIVE SplitWords(_, _, _)
SplitWords(s, acc, cur) ==
    IF s = <<>> THEN (IF cur # <<>> THEN Append(acc, cur) ELSE acc)
    ELSE IF IsSpace(Head(s))
         THEN SplitWords(Tail(s), IF cur # <<>> THEN Append(acc, cur) ELSE acc, <<>>)
         ELSE SplitWords(Tail(s), acc, Append(cur, Head(s)))

\* "for word in words": greedy fill of the lines of one paragraph
RECURSIVE WrapWords(_, _, _, _, _, _)
WrapWords(words, lines, cur, max_width, font_size, font) ==
    IF words = <<>> THEN (IF cur # <<>> THEN Append(lines, cur) ELSE lines)
    ELSE LET word == Head(words)
             test == cur \o (IF cur # <<>> THEN <<SPACE>> ELSE <<>>) \o word
         IN  IF MeasuredFits(test, font_size, font, max_width)
             THEN WrapWords(Tail(words), lines, test, max_width, font_size, font)
             ELSE IF cur # <<>>
                  THEN WrapWords(Tail(words), Append(lines, cur), word,
                                 max_width, font_size, font)
                  ELSE WrapWords(Tail(words), Append(lines, word), <<>>,
                                 max_width, font_size, font)

\* the paragraph loop without the branch for a blank paragraph
RECURSIVE WrapParagraphs_SkipsBlank(_, _, _, _, _)
WrapParagraphs_SkipsBlank(paragraphs, lines, max_width, font_size, font) ==
    IF paragraphs = <<>> THEN lines
    ELSE WrapParagraphs_SkipsBlank(Tail(paragraphs),
                                   WrapWords(SplitWords(Head(paragraphs), <<>>, <<>>),
                                             lines, <<>>, max_width, font_size, font),
                                   max_width, font_size, font)

\* "for paragraph in paragraphs"
RECURSIVE WrapParagraphs(_, _, _, _, _)
WrapParagraphs(paragraphs, lines, max_width, font_size, font) ==
    IF paragraphs = <<>> THEN lines
    ELSE LET paragraph == Head(paragraphs)
         IN  IF IsBlank(paragraph)
             THEN WrapParagraphs(Tail(paragraphs), Append(lines, <<>>),
                                 max_width, font_size, font)
             ELSE WrapParagraphs(Tail(paragraphs),
                                 WrapWords(SplitWords(paragraph, <<>>, <<>>), lines, <<>>,
                                           max_width, font_size, font),
                                 max_width, font_size, font)

\* the body of the outer try; the scratch image is allocated outside the
\* inner try, so a failure there leaves the body
WrapWordBody(text, max_width, font_size, font, imgFail) ==
    IF IsBlank(text) THEN [raised |-> FALSE, lines |-> <<<<>>>>]
    ELSE IF imgFail THEN [raised |-> TRUE, lines |-> <<>>]
    ELSE LET lines == WrapParagraphs(SplitLines(text, <<>>, <<>>), <<>>,
                                     Max(20, max_width), Max(6, font_size), font)
         IN  [raised |-> FALSE, lines |-> IF lines # <<>> THEN lines ELSE <<text>>]

wrap_text_for_overlay_safe_word(text, max_width, font_size, font, imgFail) ==
    LET b == WrapWordBody(text, max_width, font_size, font, imgFail)
    IN  [propagated |-> FALSE, failed |-> b.raised,
         lines |-> IF b.raised THEN <<text>> ELSE b.lines]

-----------------------------------------------------------------------------
(* Calls of the wrap functions on arbitrary arguments *)

WrapWidths == {2, 6, 12, 25, 40}
WrapFontSizes == {10, 20}

NoResult == [propagated |-> FALSE, failed |-> FALSE, lines |-> <<>>]

\* no second call made
NoAgain == [call |-> "none", text |-> <<>>, max_width |-> 0, result |-> NoResult]

\* no layout under way
LayoutIdle ==
    /\ lRegion = <<>>
    /\ lBox = <<>>
    /\ lImg = <<>>
    /\ lPath = "idle"
    /\ lOut = <<>>

\* the target canvas before any image is loaded
NoPixmap == [img |-> <<>>, drawn |-> {}]

\* no file written
NoFile == [kind |-> "none", img |-> <<>>, drawn |-> {}]

\* the main window as constructed: no regions, no target image
AppIdle ==
    /\ text_regions = <<>>
    /\ jp_image_list = <<>>
    /\ jp_current_image_index = 0
    /\ jp_image_path = <<>>
    /\ selected_text_index = -1
    /\ dragMode = "none"
    /\ pixmap = NoPixmap
    /\ written = NoFile

\* no target image on the canvas, no box
GeomIdle ==
    /\ gImg = <<>>
    /\ gBox = <<>>
    /\ gOwned = FALSE
    /\ gSelected = FALSE
    /\ gMode = "none"
    /\ gHandle = ""
    /\ gStart = <<>>
    /\ gEdit = "none"
    /\ gWrites = 0

\* a region as TextRegion.__init__ leaves its stroke, no dialog open
EditIdle ==
    /\ stroke_color = <<>>
    /\ stroke_width = 0
    /\ stroke_width_spin = 0
    /\ dialog = "closed"
    /\ eLast = "none"
    /\ ePrev = [stroke_color |-> <<>>, stroke_width |-> 0]
    /\ eOpened = [stroke_color |-> <<>>, stroke_width |-> 0]

\* nothing rendered
NoRender == [aborted |-> FALSE, shown |-> FALSE, regions |-> <<>>, fallbacks |-> {}]

\* no render with failures under way
FaultIdle ==
    /\ fFaults = <<>>
    /\ fPath = "idle"
    /\ fOut = NoRender

\* no outcome delivered yet
NoOutcome == [signal |-> "none", payload |-> <<>>, thread |-> "none"]

\* no run asked for, started or delivered
NoRuns == [asked |-> 0, started |-> 0, emitted |-> 0, delivered |-> 0, lines |-> 0]

\* the OCR controls as TextOverlayTool.__init__ leaves them: the button is
\* disabled until a key file is set, no client, no source image
OcrIdle ==
    /\ vision_ocr_btn = FALSE
    /\ vision_client = "none"
    /\ kr_image_path = <<>>
    /\ default_font_size = 18
    /\ ocr_thread = 0
    /\ signals = <<>>
    /\ message_box = <<>>
    /\ oRuns = NoRuns
    /\ oTouched = {}
    /\ oLast = NoOutcome

\* no merge yet
NoMerge == [rows |-> {}, before |-> <<>>, merged |-> FALSE]

MergeIdle == mLast = NoMerge

\* no resolver called
NoFontCall == [entry |-> "none", raised |-> FALSE, kind |-> "none", path |-> "", size |-> 0]

FontIdle ==
    /\ fontIn = <<>>
    /\ fontOut = NoFontCall

\* hasattr(self, '_last_move_update') is false
NoStamp == -1

NoMove == [kind |-> "none", since |-> NoStamp, recomputed |-> FALSE]

ThrottleIdle ==
    /\ startOfRun = 0
    /\ elapsed = 0
    /\ _last_resize_update = NoStamp
    /\ _last_move_update = NoStamp
    /\ recomputedAt = [moving |-> NoStamp, resizing |-> NoStamp]
    /\ tLast = NoMove

OtherIdle == MergeIdle /\ FontIdle /\ ThrottleIdle

InitWrap ==
    /\ LayoutIdle
    /\ AppIdle
    /\ GeomIdle
    /\ EditIdle
    /\ FaultIdle
    /\ OcrIdle /\ OtherIdle
    /\ wText \in SeqsUpTo(Alphabet, MaxLen)
    /\ wMaxWidth \in WrapWidths
    /\ wFontSize \in WrapFontSizes
    /\ wFont \in [size : WrapFontSizes, ok : BOOLEAN]
    /\ wImgFail \in BOOLEAN
    /\ wPc = "ready"
    /\ wResult = NoResult
    /\ wAgain = NoAgain

CallWrapBox ==
    /\ wPc = "ready"
    /\ wPc' = "box"
    /\ wResult' = wrap_text_for_box(wText, wMaxWidth, wFontSize, wFont, wImgFail)
    /\ UNCHANGED <<wText, wMaxWidth, wFontSize, wFont, wImgFail, wAgain, notWrap>>

CallWrapWord ==
    /\ wPc = "ready"
    /\ wPc' = "word"
    /\ wResult' = wrap_text_for_overlay_safe_word(wText, wMaxWidth, wFontSize, wFont, wImgFail)
    /\ UNCHANGED <<wText, wMaxWidth, wFontSize, wFont, wImgFail, wAgain, notWrap>>

NextWrap == CallWrapBox \/ CallWrapWord

SpecWrap == InitWrap /\ [][NextWrap]_vars

-----------------------------------------------------------------------------
(* Properties of the wrap functions *)

\* C2: for every text and positive max_width, the concatenated output lines of
\* either wrap function hold every non-whitespace character of the input
\* exactly once and in order; for wrap_text_for_box every input character
\* of a text that is not all whitespace (line breaks aside) is in exactly one
\* output line.
C2_LinesKeepEveryCharacter ==
    wPc # "ready" =>
        /\ NonSpace(Concat(wResult.lines)) = NonSpace(wText)
        /\ (wPc = "box" /\ ~IsBlank(wText)) =>
               NonNewline(Concat(wResult.lines)) = NonNewline(wText)

\* "a b" at a width that holds "a" but not "a ": the blank overflows, the
\* stale `word` ("a") starts the next line and the blank is lost
C2_StaleWordDuplicated ==
    /\ wPc = "box"
    /\ wText = <<LatinA, SPACE, LatinB>>
    /\ wMaxWidth = 6
    /\ wFont = [size |-> 10, ok |-> TRUE]
    /\ ~wImgFail
    /\ wResult.lines = <<<<LatinA>>, <<LatinA>>, <<LatinB>>>>

\* C9: neither wrap function propagates an exception; whenever a failure
\* leaves the body (it is not absorbed by the fallback estimate) the call
\* returns the one-element list [text].
C9_WrapNeverPropagates ==
    wPc # "ready" =>
        /\ ~wResult.propagated
        /\ wResult.failed => wResult.lines = <<wText>>

\* C9 witness: a call of wrap_text_for_box on non-blank text whose body
\* failed and that returned [text]
C9_BodyFailed ==
    /\ wPc = "box"
    /\ wResult.failed
    /\ ~IsBlank(wText)
    /\ wResult.lines = <<wText>>

\* C10: both wrap functions return a non-empty sequence of lines, and exactly
\* [""] when the text is empty or all whitespace.
C10_NonEmptyAndBlank ==
    wPc # "ready" =>
        /\ wResult.lines # <<>>
        /\ IsBlank(wText) => wResult.lines = <<<<>>>>

\* a call on a non-empty all-whitespace text
C10_BlankTextWrapped ==
    /\ wPc = "box"
    /\ wText = <<SPACE, NL>>
    /\ wResult.lines = <<<<>>>>

\* one unit of the scan: in the box wrap a single Korean character or a run
\* of characters that are neither blank nor Korean, in the word wrap a run of
\* non-blank characters
IsUnit(pc, line) ==
    /\ line # <<>>
    /\ IF pc = "box"
       THEN \/ Len(line) = 1 /\ _is_korean(line[1])
            \/ \A k \in 1..Len(line) : ~IsSpace(line[k]) /\ ~_is_korean(line[k])
       ELSE \A k \in 1..Len(line) : ~IsSpace(line[k])

\* C13: every line either wrap function returns is at most max_width wide,
\* measured or estimated as the function does, unless the line is one unit
\* that alone is wider than max_width.
C13_LinesFitOrSingleUnit ==
    wPc \in {"box", "word"} =>
        \A k \in 1..Len(wResult.lines) :
            \/ wFont.ok /\ textlength(wResult.lines[k], wFont) <= wMaxWidth
            \/ EstimateFits(wResult.lines[k], wFontSize, wMaxWidth)
            \/ IsUnit(wPc, wResult.lines[k])

\* "a a" in the word wrap at max_width 12: the line of two words measures 13
C13_TwoWordsWiderThanMaxWidth ==
    /\ wPc = "word"
    /\ wText = <<LatinA, SPACE, LatinA>>
    /\ wMaxWidth = 12
    /\ wFontSize = 10
    /\ wFont = [size |-> 10, ok |-> TRUE]
    /\ ~wResult.failed
    /\ wResult.lines = <<wText>>
    /\ textlength(wText, wFont) = 13

\* the words of a list of lines, in order
RECURSIVE WordsOf(_)
WordsOf(lines) ==
    IF lines = <<>> THEN <<>>
    ELSE SplitWords(Head(lines), <<>>, <<>>) \o WordsOf(Tail(lines))

\* the lines are, paragraph by paragraph and in order, one empty line for a
\* blank paragraph and one or more non-empty lines holding the words of a
\* paragraph that has words
RECURSIVE LinesOfParagraphs(_, _)
LinesOfParagraphs(paragraphs, lines) ==
    IF paragraphs = <<>> THEN lines = <<>>
    ELSE IF lines = <<>> THEN FALSE
    ELSE IF IsBlank(Head(paragraphs))
    THEN Head(lines) = <<>> /\ LinesOfParagraphs(Tail(paragraphs), Tail(lines))
    ELSE \E n \in 1..Len(lines) :
            /\ \A k \in 1..n : lines[k] # <<>>
            /\ WordsOf(SubSeq(lines, 1, n)) = SplitWords(Head(paragraphs), <<>>, <<>>)
            /\ LinesOfParagraphs(Tail(paragraphs), SubSeq(lines, n + 1, Len(lines)))

-----------------------------------------------------------------------------
(* Two calls of one wrap function: at a wider max_width, and on the joined
   output of the first call *)

RewrapLen == 3

\* "\n".join(lines)
RECURSIVE Join(_)
Join(lines) ==
    IF lines = <<>> THEN <<>>
    ELSE IF Len(lines) = 1 THEN Head(lines)
    ELSE Head(lines) \o <<NL>> \o Join(Tail(lines))

\* the function the first call ran, applied to other arguments in the same
\* environment
WrapBy(pc, text, max_width) ==
    IF pc = "box" THEN wrap_text_for_box(text, max_width, wFontSize, wFont, wImgFail)
    ELSE wrap_text_for_overlay_safe_word(text, max_width, wFontSize, wFont, wImgFail)

InitRewrap ==
    /\ LayoutIdle
    /\ AppIdle
    /\ GeomIdle
    /\ EditIdle
    /\ FaultIdle
    /\ OcrIdle /\ OtherIdle
    /\ wText \in SeqsUpTo(Alphabet, RewrapLen)
    /\ wMaxWidth \in WrapWidths
    /\ wFontSize \in WrapFontSizes
    /\ wFont \in [size : WrapFontSizes, ok : BOOLEAN]
    /\ wImgFail \in BOOLEAN
    /\ wPc = "ready"
    /\ wResult = NoResult
    /\ wAgain = NoAgain

\* the same text wrapped by the same function at a max_width at least as large
CallWrapWider ==
    /\ wPc \in {"box", "word"}
    /\ wAgain = NoAgain
    /\ \E w2 \in WrapWidths :
        /\ w2 >= wMaxWidth
        /\ wAgain' = [call |-> "wider", text |-> wText, max_width |-> w2,
                      result |-> WrapBy(wPc, wText, w2)]
    /\ UNCHANGED <<wText, wMaxWidth, wFontSize, wFont, wImgFail, wPc, wResult, notWrap>>

\* the lines of the first call joined with newlines and wrapped again by the
\* same function at the same max_width
CallWrapJoined ==
    /\ wPc \in {"box", "word"}
    /\ wAgain = NoAgain
    /\ LET joined == Join(wResult.lines)
       IN  wAgain' = [call |-> "joined", text |-> joined, max_width |-> wMaxWidth,
                      result |-> WrapBy(wPc, joined, wMaxWidth)]
    /\ UNCHANGED <<wText, wMaxWidth, wFontSize, wFont, wImgFail, wPc, wResult, notWrap>>

NextRewrap == CallWrapBox \/ CallWrapWord \/ CallWrapWider \/ CallWrapJoined

SpecRewrap == InitRewrap /\ [][NextRewrap]_vars

\* C11: for either wrap function, with the text and the font held fixed, a
\* max_width at least as large never gives more output lines.
C11_WiderNeverMoreLines ==
    wAgain.call = "wider" => Len(wAgain.result.lines) <= Len(wResult.lines)

\* " a" in the box wrap: one line at max_width 2, where the call ends in the
\* outer handler, and two lines at max_width 6
C11_WiderGaveMoreLines ==
    /\ wPc = "box"
    /\ wText = <<SPACE, LatinA>>
    /\ wFont = [size |-> 10, ok |-> TRUE]
    /\ wFontSize = 10
    /\ wMaxWidth = 2
    /\ wAgain.call = "wider"
    /\ wAgain.max_width = 6
    /\ Len(wResult.lines) = 1
    /\ Len(wAgain.result.lines) = 2

\* C12: for either wrap function, joining the output lines with newlines and
\* wrapping the joined string again with the same max_width and font gives
\* exactly the same lines.
C12_RewrapSameLines ==
    wAgain.call = "joined" => wAgain.result.lines = wResult.lines

\* "a\n\n" in the box wrap: the trailing empty line of the first call is not
\* a line of the second call
C12_TrailingBlankLineLost ==
    /\ wPc = "box"
    /\ wText = <<LatinA, NL, NL>>
    /\ wAgain.call = "joined"
    /\ wResult.lines = <<<<LatinA>>, <<>>>>
    /\ wAgain.text = <<LatinA, NL>>
    /\ wAgain.result.lines = <<<<LatinA>>>>

-----------------------------------------------------------------------------
(* Box-fit layout: the steps the render paths share *)

\* int(n * num / den) for the float factors 0.6, 1.1, 1.15 and line_spacing:
\* truncation toward zero
TruncMul(n, num, den) ==
    IF n >= 0 THEN (n * num) \div den ELSE 0 - (((0 - n) * num) \div den)

\* load_font_for_overlay / _load_pil_font_with_bold: a handle of the asked size
load_font_for_overlay(font_size) == [size |-> font_size, ok |-> TRUE]

\* the "safe clamping" of a box to an image of img_width x img_height
ClampBox(b, img_width, img_height) ==
    LET x1 == Max(0, Min(b.x1, img_width - 2))
        y1 == Max(0, Min(b.y1, img_height - 2))
        x2 == Max(x1 + 2, Min(b.x2, img_width - 1))
        y2 == Max(y1 + 2, Min(b.y2, img_height - 1))
    IN  [x1 |-> x1, y1 |-> y1, x2 |-> x2, y2 |-> y2]

\* the initial size computed without the floor of 8
InitialFontSize_NoFloor(box_height, region_font_size) ==
    Min(TruncMul(box_height, 6, 10), region_font_size)

\* font_size = max(8, min(int(box_height * 0.6), int(region.font_size)))
InitialFontSize(box_height, region_font_size) ==
    Max(8, Min(TruncMul(box_height, 6, 10), region_font_size))

\* effective_font_size: 10% up at bold level 1, a further 15% at level 2
InflateByLevel(font_size, bold_level) ==
    LET e1 == IF bold_level >= 1 THEN TruncMul(font_size, 11, 10) ELSE font_size
    IN  IF bold_level >= 2 THEN TruncMul(e1, 115, 100) ELSE e1

\* bold_font_size = int(font_size * 1.1) when region.bold
InflateIfBold(font_size, bold) ==
    IF bold THEN TruncMul(font_size, 11, 10) ELSE font_size

\* the text rectangle inside the box, with the fallback for a margin that
\* leaves nothing
TextRect(b, margin, font_size) ==
    LET tx1 == b.x1 + margin
        ty1 == b.y1 + margin
        tx2 == b.x2 - margin
        ty2 == b.y2 - margin
    IN  IF tx2 <= tx1 \/ ty2 <= ty1
        THEN [x1 |-> b.x1, y1 |-> b.y1,
              x2 |-> Max(b.x1 + Max(20, font_size * 2), b.x2),
              y2 |-> Max(b.y1 + Max(15, font_size), b.y2)]
        ELSE [x1 |-> tx1, y1 |-> ty1, x2 |-> tx2, y2 |-> ty2]

\* wrap_width: the text rectangle's width, widened by a negative margin
WrapWidth(t, margin) ==
    LET box_width == Max(10, t.x2 - t.x1)
    IN  IF margin < 0 THEN box_width - (margin * 2) ELSE box_width

\* the canvas's wrap call chosen by region.wrap_mode
WrapByMode(region, wrap_width, font_size, font) ==
    IF region.wrap_mode = "word"
    THEN wrap_text_for_overlay_safe_word(region.text, wrap_width, font_size, font, FALSE).lines
    ELSE wrap_text_for_box(region.text, wrap_width, font_size, font, FALSE).lines

\* int(base_line_height * region.line_spacing), line_spacing in tenths
LineHeight(base_line_height, line_spacing) == TruncMul(base_line_height, line_spacing, 10)

\* int(font_size * scale_factor), scale_factor = available_height / total_text_height
\* (on every triple the layouts below reach, the double-precision product
\* truncates to this exact quotient)
ScaleDown(font_size, available_height, total_text_height) ==
    (font_size * available_height) \div total_text_height

\* the font loaded after a shrink: the PIL exports re-apply the 10% bold
\* inflation (boldReload), the preview does not
ReloadFont(region, font_size, boldReload) ==
    IF boldReload /\ region.bold
    THEN load_font_for_overlay(TruncMul(font_size, 11, 10))
    ELSE load_font_for_overlay(font_size)

\* line_height = max(font_size, available_height // len(text_lines))
CompressedLineHeight(font_size, available_height, lines) ==
    Max(font_size, available_height \div Len(lines))

\* no font shrink was made
NoShrink ==
    [from_size |-> 0, from_height |-> 0, available_height |-> 0, wrap_width |-> 0,
     rewraps |-> 0]

\* the end of the shrink branch: the lines at the new size and their height
Shrunk(font_size, font, lines, available_height) ==
    [font_size |-> font_size, font |-> font, lines |-> lines,
     line_height |-> CompressedLineHeight(font_size, available_height, lines),
     stage |-> "shrunk", shrink |-> NoShrink]

\* the shrink branch: new size, font reload and (where the path has it) re-wrap
Shrink(region, wrap_width, available_height, font_size, font, lines, rewrap) ==
    Shrunk(font_size, font,
           IF rewrap THEN WrapByMode(region, wrap_width, font_size, font) ELSE lines,
           available_height)

\* "if total_text_height > available_height": line-height compression, then
\* one font shrink
Overflowing(region, wrap_width, available_height, font_size, font, lines, line_height, boldReload, rewrap) ==
    IF Len(lines) * line_height <= available_height
    THEN [font_size |-> font_size, font |-> font, lines |-> lines,
          line_height |-> line_height, stage |-> "compressed", shrink |-> NoShrink]
    ELSE [Shrink(region, wrap_width, available_height,
                 Max(8, ScaleDown(font_size, available_height, Len(lines) * line_height)),
                 ReloadFont(region,
                            Max(8, ScaleDown(font_size, available_height, Len(lines) * line_height)),
                            boldReload),
                 lines, rewrap)
          EXCEPT !.shrink = [from_size |-> font_size,
                             from_height |-> Len(lines) * line_height,
                             available_height |-> available_height,
                             wrap_width |-> wrap_width,
                             rewraps |-> IF rewrap THEN 1 ELSE 0]]

\* the lines at the initial size against the available height
Fitted(region, wrap_width, available_height, font_size, font, lines, line_height, boldReload, rewrap) ==
    IF Len(lines) * line_height <= available_height
    THEN [font_size |-> font_size, font |-> font, lines |-> lines,
          line_height |-> line_height, stage |-> "fits", shrink |-> NoShrink]
    ELSE Overflowing(region, wrap_width, available_height, font_size, font, lines,
                     CompressedLineHeight(font_size, available_height, lines),
                     boldReload, rewrap)

\* wrap, line height and overflow adjustment of the PIL paths
FitToHeight(region, wrap_width, available_height, font_size, font, base_line_height, boldReload, rewrap) ==
    Fitted(region, wrap_width, available_height, font_size, font,
           WrapByMode(region, wrap_width, font_size, font),
           LineHeight(base_line_height, region.line_spacing), boldReload, rewrap)

\* text_width of a drawn line: measured, or estimated when measuring raises
LineWidth(line, font, font_size) ==
    IF font.ok THEN textlength(line, font) ELSE (Len(line) * font_size * 6) \div 10

\* text_x by region.text_align
AlignX(t, text_width, text_align) ==
    IF text_align = "left" THEN t.x1
    ELSE IF text_align = "right" THEN t.x2 - text_width
    ELSE t.x1 + (t.x2 - t.x1 - text_width) \div 2

\* the truncation loop of the preview: characters are dropped from the end
\* while the line is non-empty and its bottom is past the tolerance
RECURSIVE TruncatedText(_, _)
TruncatedText(truncated_text, overflows) ==
    IF truncated_text # <<>> /\ overflows
    THEN TruncatedText(SubSeq(truncated_text, 1, Len(truncated_text) - 1), overflows)
    ELSE truncated_text

\* the drawing loop of the PIL paths: for each line its position, whether
\* draw.text is reached with the whole line (shown), whether the line passes
\* the first test and fails the second (cut), what the truncation loop leaves
\* of it (kept; the whole line where the path has no such loop), and whether
\* draw.text is reached with a shortened line and "..." (ellipsis; only the
\* preview has that branch)
PlaceLines(lines, font, font_size, t, text_align, start_y, line_height, tolerance, truncates) ==
    [k \in 1..Len(lines) |->
        LET w == LineWidth(lines[k], font, font_size)
            x == AlignX(t, w, text_align)
            y == start_y + (k - 1) * line_height
            inside == /\ x >= t.x1 - tolerance
                      /\ x + w <= t.x2 + tolerance
                      /\ y <= t.y2 + tolerance
            whole  == y + font_size <= t.y2 + tolerance
        IN  IF IsBlank(lines[k])
            THEN [x |-> 0, y |-> 0, shown |-> FALSE, ellipsis |-> FALSE,
                  cut |-> FALSE, kept |-> lines[k]]
            ELSE [x |-> x, y |-> y, shown |-> inside /\ whole,
                  cut |-> inside /\ ~whole,
                  kept |-> IF truncates /\ inside
                           THEN TruncatedText(lines[k], ~whole) ELSE lines[k],
                  ellipsis |-> /\ truncates
                               /\ inside
                               /\ ~whole
                               /\ TruncatedText(lines[k], ~whole) # <<>>]]

\* a region the path skips before any layout
NotDrawn ==
    [drawn |-> FALSE, box |-> <<>>, box_height |-> 0, initial |-> 0, inflated |-> 0,
     font_size |-> 0,
     font |-> 0, lines |-> <<>>, line_height |-> 0, pos |-> <<>>, stage |-> "none",
     shrink |-> NoShrink]

\* the record of a laid-out region
Laid(b, font_size, inflated, fit, t, region, tolerance, truncates) ==
    LET av      == t.y2 - t.y1
        start_y == t.y1 + (av - Len(fit.lines) * fit.line_height) \div 2
    IN  [drawn |-> TRUE, box |-> b, box_height |-> b.y2 - b.y1, initial |-> font_size,
         inflated |-> inflated, font_size |-> fit.font_size, font |-> fit.font.size,
         lines |-> fit.lines, line_height |-> fit.line_height,
         pos |-> PlaceLines(fit.lines, fit.font, fit.font_size, t, region.text_align,
                            start_y, fit.line_height, tolerance, truncates),
         stage |-> fit.stage, shrink |-> fit.shrink]

\* ImageCanvas.draw_korean_text_optimized: the preview of one region
draw_korean_text_optimized(region, bbox, img) ==
    LET b == ClampBox(bbox, img.w, img.h)
        font_size == InitialFontSize(b.y2 - b.y1, region.font_size)
        t == TextRect(b, region.margin, font_size)
        bold_font_size == InflateIfBold(font_size, region.bold)
        fit == FitToHeight(region, WrapWidth(t, region.margin), t.y2 - t.y1, font_size,
                           load_font_for_overlay(bold_font_size), font_size, FALSE, TRUE)
    IN  IF b.x2 - b.x1 < 2 \/ b.y2 - b.y1 < 2 THEN NotDrawn
        ELSE Laid(b, font_size, bold_font_size, fit, t, region, 20, TRUE)

\* the per-region body of save_with_pil_screen (scale 1) and of
\* save_with_pil_hires (scale 2)
PilExport(region, bbox, img, scale) ==
    LET b == ClampBox([x1 |-> bbox.x1 * scale, y1 |-> bbox.y1 * scale,
                       x2 |-> bbox.x2 * scale, y2 |-> bbox.y2 * scale],
                      img.w * scale, img.h * scale)
        font_size == InitialFontSize(b.y2 - b.y1, region.font_size * scale)
        margin == region.margin * scale
        t == TextRect(b, margin, font_size)
        effective_font_size == InflateByLevel(font_size, region.bold_level)
        fit == FitToHeight(region, WrapWidth(t, margin), t.y2 - t.y1, font_size,
                           load_font_for_overlay(effective_font_size),
                           effective_font_size, TRUE, TRUE)
    IN  IF b.x2 - b.x1 < 2 \/ b.y2 - b.y1 < 2 THEN NotDrawn
        ELSE Laid(b, font_size, effective_font_size, fit, t, region, 20 * scale, FALSE)

save_with_pil_screen(region, bbox, img) == PilExport(region, bbox, img, 1)

save_with_pil_hires(region, bbox, img) == PilExport(region, bbox, img, 2)

\* the drawing loop of the QPainter paths: line_y is the baseline,
\* start_y + idx * line_height + font_size, and the line is drawn when the
\* baseline is not below the text rectangle
QtPlaceLines(lines, qfont, font_size, t, text_align, start_y, line_height) ==
    [k \in 1..Len(lines) |->
        LET line_width == textlength(lines[k], qfont)
            line_y     == start_y + (k - 1) * line_height + font_size
        IN  IF IsBlank(lines[k])
            THEN [x |-> 0, y |-> 0, shown |-> FALSE, ellipsis |-> FALSE,
                  cut |-> FALSE, kept |-> lines[k]]
            ELSE [x |-> AlignX(t, line_width, text_align), y |-> line_y,
                  shown |-> line_y <= t.y2, ellipsis |-> FALSE,
                  cut |-> line_y > t.y2, kept |-> lines[k]]]

\* TextOverlayTool has wrap_text_for_overlay_safe_word but no wrap_text_for_box:
\* in "char" mode the call raises AttributeError inside the try around it
ToolWrap(region, wrap_width, font_size, temp_font) ==
    IF region.wrap_mode = "word"
    THEN [raised |-> FALSE,
          lines |-> wrap_text_for_overlay_safe_word(region.text, wrap_width, font_size,
                                                    temp_font, FALSE).lines]
    ELSE [raised |-> TRUE, lines |-> <<>>]

\* the per-region body of save_with_qpainter
save_with_qpainter(region, bbox, img) ==
    LET box_height == bbox.y2 - bbox.y1
        initial   == InitialFontSize(box_height, region.font_size)
        font_size == InflateIfBold(initial, region.bold)
        t  == TextRect(bbox, region.margin, font_size)
        wrap_width == WrapWidth(t, region.margin)
        av == t.y2 - t.y1
        w0 == ToolWrap(region, wrap_width, font_size, load_font_for_overlay(font_size))
        lines0 == IF w0.raised THEN <<region.text>> ELSE w0.lines
        lh0 == LineHeight(font_size, region.line_spacing)
        fs2 == Max(8, ScaleDown(font_size, av, Len(lines0) * lh0))
        w2  == ToolWrap(region, wrap_width, fs2, load_font_for_overlay(fs2))
        lines2 == IF w2.raised THEN lines0 ELSE w2.lines
        lh2 == Max(fs2, av \div Len(lines2))
        shrunk == Len(lines0) * lh0 > av
        fs    == IF shrunk THEN fs2 ELSE font_size
        qfont == load_font_for_overlay(IF shrunk THEN InflateIfBold(fs2, region.bold)
                                       ELSE font_size)
        lines == IF shrunk THEN lines2 ELSE lines0
        lh    == IF shrunk THEN lh2 ELSE lh0
        start_y == t.y1 + (t.y2 - t.y1 - Len(lines) * lh) \div 2
    IN  [drawn |-> TRUE, box |-> bbox, box_height |-> box_height, initial |-> initial,
         inflated |-> font_size, font_size |-> fs, font |-> qfont.size,
         lines |-> lines, line_height |-> lh,
         pos |-> QtPlaceLines(lines, qfont, fs, t, region.text_align, start_y, lh),
         stage |-> IF shrunk THEN "shrunk" ELSE "fits",
         shrink |-> IF shrunk
                    THEN [from_size |-> font_size, from_height |-> Len(lines0) * lh0,
                          available_height |-> av, wrap_width |-> wrap_width,
                          rewraps |-> IF w2.raised THEN 0 ELSE 1]
                    ELSE NoShrink]

\* start_y and the drawing loop of save_with_widget_capture
WidgetLaid(bbox, box_height, initial, font_size, fit, t, region) ==
    [drawn |-> TRUE, box |-> bbox, box_height |-> box_height, initial |-> initial,
     inflated |-> font_size, font_size |-> fit.font_size, font |-> fit.font_size,
     lines |-> fit.lines, line_height |-> fit.line_height,
     pos |-> QtPlaceLines(fit.lines, load_font_for_overlay(fit.font_size), fit.font_size, t,
                          region.text_align,
                          t.y1 + ((t.y2 - t.y1) - Len(fit.lines) * fit.line_height) \div 2,
                          fit.line_height),
     stage |-> fit.stage, shrink |-> fit.shrink]

\* the per-region body of save_with_widget_capture
save_with_widget_capture(region, bbox, img) ==
    LET box_height == bbox.y2 - bbox.y1
        initial   == InitialFontSize(box_height, region.font_size)
        font_size == InflateByLevel(initial, region.bold_level)
        t   == TextRect(bbox, region.margin, font_size)
        pil_font == load_font_for_overlay(InflateIfBold(font_size, region.bold))
    IN  WidgetLaid(bbox, box_height, initial, font_size,
                   FitToHeight(region, WrapWidth(t, region.margin), t.y2 - t.y1, font_size,
                               pil_font, font_size, FALSE, FALSE),
                   t, region)

-----------------------------------------------------------------------------
(* One region laid out by one render path *)

LayoutTexts ==
    { <<HangulGa, HangulGa, HangulGa>>,
      <<LatinA, LatinB, SPACE, LatinA, LatinB>>,
      <<LatinA, NL, LatinB, NL, HangulGa>>,
      <<HangulGa, SPACE, LatinA>>,
      <<LatinA, NL, LatinB, NL, LatinA, NL, LatinB, NL, LatinA, NL, LatinB, NL, HangulGa>> }

RegionFontSizes == {6, 18, 30}
Margins == {-2, 2, 10}
LineSpacings == {10, 12, 20}
BoldLevels == {0, 1, 2}

\* the style fields of a TextRegion; bold is kept equal to bold_level >= 1
LayoutRegion(tx, fs, mg, wm, ls, bl, ta) ==
    [text |-> tx, font_size |-> fs, margin |-> mg, wrap_mode |-> wm,
     line_spacing |-> ls, bold |-> (bl >= 1), bold_level |-> bl, text_align |-> ta]

\* the target image, boxes inside it and hanging over its right/bottom edge,
\* and the box of width and height 0 that "5,5,0,0" typed into the table gives
LayoutImage == [w |-> 64, h |-> 48]

LayoutBoxes ==
    { [x1 |-> x, y1 |-> y, x2 |-> x + w, y2 |-> y + h] :
      x \in {0, 30}, y \in {0, 30}, w \in {20, 50}, h \in {10, 16, 30} }
        \cup {[x1 |-> 5, y1 |-> 5, x2 |-> 5, y2 |-> 5]}

\* no wrap call under way
WrapIdle ==
    /\ wText = <<>>
    /\ wMaxWidth = 0
    /\ wFontSize = 0
    /\ wFont = <<>>
    /\ wImgFail = FALSE
    /\ wPc = "idle"
    /\ wResult = NoResult
    /\ wAgain = NoAgain

InitLayout ==
    /\ WrapIdle
    /\ AppIdle
    /\ GeomIdle
    /\ EditIdle
    /\ FaultIdle
    /\ OcrIdle /\ OtherIdle
    /\ \E tx \in LayoutTexts, fs \in RegionFontSizes, mg \in Margins,
          wm \in {"word", "char"}, ls \in LineSpacings, bl \in BoldLevels,
          ta \in {"left", "center", "right"} :
            lRegion = LayoutRegion(tx, fs, mg, wm, ls, bl, ta)
    /\ lBox \in LayoutBoxes
    /\ lImg = LayoutImage
    /\ lPath = "ready"
    /\ lOut = NotDrawn

RenderPreview ==
    /\ lPath = "ready"
    /\ lPath' = "preview"
    /\ lOut' = draw_korean_text_optimized(lRegion, lBox, lImg)
    /\ UNCHANGED <<lRegion, lBox, lImg, notLayout>>

SavePilScreen ==
    /\ lPath = "ready"
    /\ lPath' = "screen"
    /\ lOut' = save_with_pil_screen(lRegion, lBox, lImg)
    /\ UNCHANGED <<lRegion, lBox, lImg, notLayout>>

SavePilHires ==
    /\ lPath = "ready"
    /\ lPath' = "hires"
    /\ lOut' = save_with_pil_hires(lRegion, lBox, lImg)
    /\ UNCHANGED <<lRegion, lBox, lImg, notLayout>>

SaveQPainter ==
    /\ lPath = "ready"
    /\ lPath' = "qpainter"
    /\ lOut' = save_with_qpainter(lRegion, lBox, lImg)
    /\ UNCHANGED <<lRegion, lBox, lImg, notLayout>>

SaveWidgetCapture ==
    /\ lPath = "ready"
    /\ lPath' = "widget"
    /\ lOut' = save_with_widget_capture(lRegion, lBox, lImg)
    /\ UNCHANGED <<lRegion, lBox, lImg, notLayout>>

NextLayout ==
    \/ RenderPreview
    \/ SavePilScreen
    \/ SavePilHires
    \/ SaveQPainter
    \/ SaveWidgetCapture

SpecLayout == InitLayout /\ [][NextLayout]_vars

-----------------------------------------------------------------------------
(* Properties of the box-fit layout *)

\* what two paths must agree on: whether the region is drawn, its line breaks,
\* its final font size, and the position of every line
Placement(out) ==
    [drawn |-> out.drawn, lines |-> out.lines, font_size |-> out.font_size,
     pos |-> [k \in DOMAIN out.pos |-> <<out.pos[k].x, out.pos[k].y>>]]

\* the 2x layout with its geometry divided by the scale factor
Halved(out) ==
    [out EXCEPT !.font_size = out.font_size \div 2,
                !.pos = [k \in DOMAIN out.pos |->
                            [out.pos[k] EXCEPT !.x = out.pos[k].x \div 2,
                                               !.y = out.pos[k].y \div 2]]]

\* the QPainter layout with each baseline moved up to the top of its line
LineTops(out) ==
    [out EXCEPT !.pos = [k \in DOMAIN out.pos |->
                            IF IsBlank(out.lines[k]) THEN out.pos[k]
                            ELSE [out.pos[k] EXCEPT !.y = out.pos[k].y - out.font_size]]]

\* C1: for any region, box and image, the preview, the standard export, the 2x
\* export (geometry divided by 2) and the legacy QPainter export compute the
\* same line breaks, the same final font size and the same line positions.
C1_RenderPathsAgree ==
    LET preview == Placement(draw_korean_text_optimized(lRegion, lBox, lImg))
    IN  /\ lPath = "screen" => Placement(lOut) = preview
        /\ lPath = "hires" => Placement(Halved(lOut)) = preview
        /\ lPath = "qpainter" => Placement(LineTops(lOut)) = preview

\* a bold region whose lines the standard export spaces by the inflated size
\* while the preview spaces them by the uninflated one
C1_ScreenSpacingDiffers ==
    LET preview == draw_korean_text_optimized(lRegion, lBox, lImg)
    IN  /\ lPath = "screen"
        /\ lRegion.bold_level = 1
        /\ lOut.drawn /\ preview.drawn
        /\ lOut.stage = "fits" /\ preview.stage = "fits"
        /\ lOut.lines = preview.lines
        /\ lOut.font_size = preview.font_size
        /\ lOut.line_height > preview.line_height
        /\ \E k \in DOMAIN lOut.pos :
               lOut.pos[k].shown /\ preview.pos[k].shown /\ lOut.pos[k].y # preview.pos[k].y

\* the three stages of the effective font size of a drawn region
FontStages(out) == {out.initial, out.inflated, out.font_size}

ShrinkStep(out, region, size) ==
    /\ out.font_size = size
    /\ out.shrink.rewraps = 1
    /\ out.lines = WrapByMode(region, out.shrink.wrap_width, out.font_size,
                              load_font_for_overlay(out.font))
    /\ out.line_height = Max(out.font_size, out.shrink.available_height \div Len(out.lines))

\* C15: in every render path, when the lines are still taller than the
\* available height after the line height was compressed, the font size
\* becomes the size scaled by available height / total height (and not less
\* than the minimum of 8), the text is wrapped again exactly once at that
\* size, and the line height is recomputed from the new lines.
C15_ShrinkRewrapsOnce ==
    (lPath # "ready" /\ lOut.stage = "shrunk") =>
        ShrinkStep(lOut, lRegion,
                   Max(8, ScaleDown(lOut.shrink.from_size, lOut.shrink.available_height,
                                    lOut.shrink.from_height)))

\* a widget-capture export that shrank the font and kept the lines wrapped
\* at the old size, which are not the lines of the text at the new size
C15_WidgetKeepsOldLines ==
    /\ lPath = "widget"
    /\ lOut.stage = "shrunk"
    /\ lOut.font_size < lOut.shrink.from_size
    /\ lOut.shrink.rewraps = 0
    /\ lOut.lines # WrapByMode(lRegion, lOut.shrink.wrap_width, lOut.font_size,
                               load_font_for_overlay(lOut.font))

\* C16: in every render path a line whose bottom is past the text rectangle
\* by more than the tolerance is stripped from the end and drawn shortened
\* with an ellipsis; nothing is drawn for it only when it was stripped to
\* empty.
C16_OverflowingLineTruncated ==
    (lPath # "ready" /\ lOut.drawn) =>
        \A k \in DOMAIN lOut.pos :
            lOut.pos[k].cut => (lOut.pos[k].ellipsis \/ lOut.pos[k].kept = <<>>)

\* a standard export whose last line is past the tolerance: the line is
\* neither drawn nor shortened
C16_ExportDropsWholeLine ==
    /\ lPath = "screen"
    /\ lOut.drawn
    /\ \E k \in DOMAIN lOut.pos :
        /\ lOut.pos[k].cut
        /\ ~lOut.pos[k].shown
        /\ ~lOut.pos[k].ellipsis
        /\ lOut.pos[k].kept = lOut.lines[k]


\* the image a path draws on: save_with_pil_hires works on the image enlarged
\* by its scale factor 2, every other path on the image itself
DestinationImage ==
    IF lPath = "hires" THEN [w |-> 2 * lImg.w, h |-> 2 * lImg.h] ELSE lImg

\* a target box without an interior
Degenerate(b) == b.x2 <= b.x1 \/ b.y2 <= b.y1

\* the box lies within an image of the given size and is at least 2 x 2
ClampedInto(b, img) ==
    /\ 0 <= b.x1 /\ b.x1 <= img.w /\ 0 <= b.x2 /\ b.x2 <= img.w
    /\ 0 <= b.y1 /\ b.y1 <= img.h /\ 0 <= b.y2 /\ b.y2 <= img.h
    /\ b.x2 - b.x1 >= 2
    /\ b.y2 - b.y1 >= 2

\* C24: every render path draws nothing for a degenerate target box, and lays
\* out any other region in a box whose four coordinates lie within the
\* destination image and that is at least 2 wide and 2 high.
C24_BoxClampedIntoImage ==
    lPath # "ready" =>
        IF Degenerate(lBox) THEN ~lOut.drawn
        ELSE lOut.drawn /\ ClampedInto(lOut.box, DestinationImage)

\* the QPainter export of a box that hangs over the right edge of the image:
\* the text is laid out in the box as it is, 16 columns beyond the image
C24_QPainterBoxOverEdge ==
    /\ lPath = "qpainter"
    /\ lOut.drawn
    /\ lBox = [x1 |-> 30, y1 |-> 0, x2 |-> 80, y2 |-> 30]
    /\ lOut.box = lBox
    /\ lOut.box.x2 = lImg.w + 16

\* C25: in every render path the size after bold inflation is the initial size
\* times 1.10 for Bold and that result times a further 1.15 for ExtraBold, and
\* where the text fits without a shrink the font is loaded at the inflated size
\* and the line height is the inflated size times the line spacing.
C25_BoldInflationInEveryPath ==
    (lPath # "ready" /\ lOut.drawn) =>
        /\ lOut.inflated = InflateByLevel(lOut.initial, lRegion.bold_level)
        /\ lOut.stage = "fits" =>
            /\ lOut.font = lOut.inflated
            /\ lOut.line_height = LineHeight(lOut.inflated, lRegion.line_spacing)

\* the preview of an ExtraBold region of size 18 in a box 30 high: the initial
\* size 18 is inflated to 19 where 1.10 and then 1.15 give 21, and the line
\* height comes from 18
C25_PreviewExtraBoldInflatedOnce ==
    /\ lPath = "preview"
    /\ lOut.drawn
    /\ lRegion.bold_level = 2
    /\ lOut.stage = "fits"
    /\ lOut.initial = 18
    /\ lOut.inflated = 19
    /\ InflateByLevel(lOut.initial, lRegion.bold_level) = 21
    /\ lOut.font = 19
    /\ lOut.line_height = LineHeight(18, lRegion.line_spacing)
-----------------------------------------------------------------------------
(* The main window: regions, target images, preview and export             *)
(*                                                                         *)
(* A path is a sequence <<folder, file name>>; no path and no file name    *)
(* (Python's None) are <<>> and "".  Indices keep Python's values: rows    *)
(* count from 0 and -1 is "no selection", so row i is text_regions[i + 1]. *)
(* A region here carries the fields that decide where it is drawn; its     *)
(* text and style are laid out by the render paths above.                  *)

MaxRegions == 2

None == ""

Basename(path) == path[Len(path)]

\* the target folders the user can choose, each listing sorted
Folders ==
    [ d1 |-> << <<"d1", "a.png">>, <<"d1", "b.png">> >>,
      d2 |-> << <<"d2", "a.png">> >> ]

\* the boxes the geometry handlers of this part write
AppBoxes == { <<0, 0, 120, 50>>, <<10, 10, 40, 40>> }

\* TextRegion.__init__
TextRegion ==
    [target_bbox |-> <<>>, is_positioned |-> FALSE,
     image_filename |-> None, visible |-> TRUE]

RemoveAt(seq, i) == SubSeq(seq, 1, i - 1) \o SubSeq(seq, i + 1, Len(seq))

\* rows of the table that hold a region
ValidRow(regions, row) == 0 <= row /\ row < Len(regions)

\* every region, whatever its image (the filter left out)
CurrentRegions_NoFilter(regions, current_filename) == DOMAIN regions

\* the regions whose image_filename is the current file name
CurrentRegions(regions, current_filename) ==
    { i \in DOMAIN regions : regions[i].image_filename = current_filename }

\* the regions a drawing loop composites out of the ones handed to it
Composited(regions, rows, checksVisible) ==
    { [index |-> i - 1, image_filename |-> regions[i].image_filename] :
        i \in { j \in rows :
                  /\ checksVisible => regions[j].visible
                  /\ regions[j].is_positioned
                  /\ regions[j].target_bbox # <<>> } }

update_display_with_preview(image, regions, rows) ==
    [img |-> image, drawn |-> Composited(regions, rows, TRUE)]

update_display_basic(image) == [img |-> image, drawn |-> {}]

\* ImageCanvas.update_display of the target canvas showing `image`
update_display(image, regions, path, shown) ==
    IF image = <<>> THEN shown
    ELSE IF path # <<>>
         THEN update_display_with_preview(
                  image, regions, CurrentRegions(regions, Basename(path)))
         ELSE update_display_basic(image)

\* the canvas selection after update_display_for_current_image
KeptSelection(regions, path, selected) ==
    IF /\ path # <<>>
       /\ ValidRow(regions, selected)
       /\ regions[selected + 1].image_filename # Basename(path)
    THEN -1 ELSE selected

\* the canvas after update_display_for_current_image
update_display_for_current_image(regions, path, shown) ==
    IF path = <<>> THEN shown
    ELSE update_display_with_preview(
             path, regions, CurrentRegions(regions, Basename(path)))

\* the handler wrote no file
NoWrite == written' = NoFile

\* load_current_japanese_image with the list and index already chosen;
\* `opens` is whether Image.open succeeds on the file
load_current_japanese_image(list, index, opens) ==
    IF list = <<>> \/ index >= Len(list) \/ ~opens
    THEN UNCHANGED <<jp_image_path, pixmap, selected_text_index>>
    ELSE LET image_path == list[index + 1]
             \* load_image has drawn the new picture under the old path's
             \* filter; the handler overwrites that frame twice before it
             \* returns to the event loop
             cleared == update_display_with_preview(image_path,
                                                    text_regions, {})
         IN  /\ jp_image_path' = image_path
             /\ pixmap' = update_display_for_current_image(
                              text_regions, image_path, cleared)
             /\ selected_text_index' =
                    KeptSelection(text_regions, image_path,
                                  selected_text_index)

select_japanese_image_folder ==
    \E d \in DOMAIN Folders, opens \in BOOLEAN :
        /\ jp_image_list' = Folders[d]
        /\ jp_current_image_index' = 0
        /\ load_current_japanese_image(Folders[d], 0, opens)
        /\ NoWrite
        /\ UNCHANGED <<text_regions, dragMode, notApp>>

on_jp_image_list_click ==
    \E row \in 0 .. 1, opens \in BOOLEAN :
        /\ 0 <= row /\ row < Len(jp_image_list)
        /\ jp_current_image_index' = row
        /\ load_current_japanese_image(jp_image_list, row, opens)
        /\ NoWrite
        /\ UNCHANGED <<text_regions, jp_image_list, dragMode, notApp>>

prev_jp_image ==
    \E opens \in BOOLEAN :
        /\ jp_image_list # <<>>
        /\ jp_current_image_index > 0
        /\ jp_current_image_index' = jp_current_image_index - 1
        /\ load_current_japanese_image(jp_image_list,
                                       jp_current_image_index - 1, opens)
        /\ NoWrite
        /\ UNCHANGED <<text_regions, jp_image_list, dragMode, notApp>>

next_jp_image ==
    \E opens \in BOOLEAN :
        /\ jp_image_list # <<>>
        /\ jp_current_image_index < Len(jp_image_list) - 1
        /\ jp_current_image_index' = jp_current_image_index + 1
        /\ load_current_japanese_image(jp_image_list,
                                       jp_current_image_index + 1, opens)
        /\ NoWrite
        /\ UNCHANGED <<text_regions, jp_image_list, dragMode, notApp>>

\* the region list with row `row` replaced
Put(regions, row, region) == [regions EXCEPT ![row + 1] = region]

\* the trailing update_display_for_current_image of a handler
Refresh(regions, selected) ==
    /\ pixmap' = update_display_for_current_image(regions, jp_image_path,
                                                  pixmap)
    /\ selected_text_index' = KeptSelection(regions, jp_image_path, selected)

\* k non-blank lines arrive from the OCR worker; the canvas is not redrawn
on_vision_ocr_completed ==
    \E k \in 1 .. MaxRegions :
        /\ Len(text_regions) + k <= MaxRegions
        /\ text_regions' = text_regions \o [i \in 1 .. k |-> TextRegion]
        /\ NoWrite
        /\ UNCHANGED <<jp_image_list, jp_current_image_index, jp_image_path,
                       selected_text_index, dragMode, pixmap, notApp>>

add_manual_text_line ==
    /\ Len(text_regions) < MaxRegions
    /\ text_regions' = Append(text_regions, TextRegion)
    /\ pixmap' = update_display(jp_image_path, text_regions',
                                jp_image_path, pixmap)
    /\ NoWrite
    /\ UNCHANGED <<jp_image_list, jp_current_image_index, jp_image_path,
                   selected_text_index, dragMode, notApp>>

\* dropEvent hands the row and the box to on_text_dropped
on_text_dropped ==
    \E text_index \in 0 .. MaxRegions - 1, bbox \in AppBoxes :
        /\ jp_image_path # <<>>
        /\ ValidRow(text_regions, text_index)
        /\ LET region == text_regions[text_index + 1]
               placed == [region EXCEPT
                            !.target_bbox = bbox,
                            !.is_positioned = TRUE,
                            !.image_filename = Basename(jp_image_path)]
           IN  /\ text_regions' = Put(text_regions, text_index, placed)
               /\ Refresh(text_regions', selected_text_index)
        /\ NoWrite
        /\ UNCHANGED <<jp_image_list, jp_current_image_index, jp_image_path,
                       dragMode, notApp>>

Pointers == { <<5, 5>>, <<30, 30>>, <<100, 25>> }

Inside(pos, b) ==
    b[1] <= pos[1] /\ pos[1] <= b[3] /\ b[2] <= pos[2] /\ pos[2] <= b[4]

\* rows of the current image's positioned boxes under the pointer
RowsAt(regions, path, pos) ==
    { i \in DOMAIN regions :
        /\ regions[i].image_filename = Basename(path)
        /\ regions[i].is_positioned
        /\ regions[i].target_bbox # <<>>
        /\ Inside(pos, regions[i].target_bbox) }

\* the topmost of them, -1 if none
get_text_at_position(regions, path, pos) ==
    IF path = <<>> \/ RowsAt(regions, path, pos) = {} THEN -1
    ELSE (CHOOSE i \in RowsAt(regions, path, pos) :
              \A j \in RowsAt(regions, path, pos) : j <= i) - 1

effective_size == 20

\* whether the pointer is on one of the four corner handles of box b
get_resize_handle(pos, b) ==
    \/ Inside(pos, <<b[3] - effective_size, b[4] - effective_size, b[3], b[4]>>)
    \/ Inside(pos, <<b[3] - effective_size, b[2], b[3], b[2] + effective_size>>)
    \/ Inside(pos, <<b[1], b[4] - effective_size, b[1] + effective_size, b[4]>>)
    \/ Inside(pos, <<b[1], b[2], b[1] + effective_size, b[2] + effective_size>>)

\* left button pressed on the target canvas
mousePressEvent ==
    \E pos \in Pointers :
        /\ jp_image_path # <<>>
        /\ LET clicked == get_text_at_position(text_regions, jp_image_path,
                                               pos)
           IN  /\ clicked >= 0
               /\ selected_text_index' = clicked
               /\ dragMode' =
                      IF get_resize_handle(
                             pos, text_regions[clicked + 1].target_bbox)
                      THEN "resizing" ELSE "moving"
        /\ pixmap' = update_display_with_preview(
                         jp_image_path, text_regions,
                         CurrentRegions(text_regions,
                                        Basename(jp_image_path)))
        /\ NoWrite
        /\ UNCHANGED <<text_regions, jp_image_list, jp_current_image_index,
                       jp_image_path, notApp>>

\* the guards shared by move_text_box, resize_text_box and the arrow keys
Editable(regions, path, selected) ==
    /\ ValidRow(regions, selected)
    /\ regions[selected + 1].is_positioned
    /\ regions[selected + 1].target_bbox # <<>>
    /\ path # <<>>
    /\ regions[selected + 1].image_filename = Basename(path)

\* a move of the pointer while a box is dragged or resized
mouseMoveEvent ==
    \E bbox \in AppBoxes :
        /\ dragMode \in {"moving", "resizing"}
        /\ Editable(text_regions, jp_image_path, selected_text_index)
        /\ text_regions' =
               Put(text_regions, selected_text_index,
                   [text_regions[selected_text_index + 1]
                        EXCEPT !.target_bbox = bbox])
        /\ pixmap' = update_display_with_preview(
                         jp_image_path, text_regions',
                         CurrentRegions(text_regions',
                                        Basename(jp_image_path)))
        /\ NoWrite
        /\ UNCHANGED <<jp_image_list, jp_current_image_index, jp_image_path,
                       selected_text_index, dragMode, notApp>>

mouseReleaseEvent ==
    /\ jp_image_path # <<>>
    /\ selected_text_index >= 0
    /\ dragMode' = "none"
    /\ NoWrite
    /\ UNCHANGED <<text_regions, jp_image_list, jp_current_image_index,
                   jp_image_path, selected_text_index, pixmap, notApp>>

\* an arrow key moves the selected box
move_selected_text_box ==
    \E bbox \in AppBoxes :
        /\ Editable(text_regions, jp_image_path, selected_text_index)
        /\ text_regions' =
               Put(text_regions, selected_text_index,
                   [text_regions[selected_text_index + 1]
                        EXCEPT !.target_bbox = bbox])
        /\ Refresh(text_regions', selected_text_index)
        /\ NoWrite
        /\ UNCHANGED <<jp_image_list, jp_current_image_index, jp_image_path,
                       dragMode, notApp>>

\* "x,y,width,height" typed into the position column
ManualEntries == { <<0, 0, 120, 50>>, <<10, 10, 30, 30>> }

on_table_item_double_clicked ==
    \E row \in 0 .. MaxRegions - 1, e \in ManualEntries :
        /\ ValidRow(text_regions, row)
        /\ jp_image_path # <<>>
        /\ text_regions' =
               Put(text_regions, row,
                   [text_regions[row + 1] EXCEPT
                        !.target_bbox = <<e[1], e[2], e[1] + e[3], e[2] + e[4]>>,
                        !.is_positioned = TRUE])
        /\ Refresh(text_regions', selected_text_index)
        /\ NoWrite
        /\ UNCHANGED <<jp_image_list, jp_current_image_index, jp_image_path,
                       dragMode, notApp>>

\* "reset position" on the highlighted table row
reset_text_position ==
    \E current_row \in 0 .. MaxRegions - 1 :
        /\ ValidRow(text_regions, current_row)
        /\ text_regions[current_row + 1].is_positioned
        /\ text_regions' =
               Put(text_regions, current_row,
                   [text_regions[current_row + 1] EXCEPT
                        !.target_bbox = <<>>,
                        !.is_positioned = FALSE,
                        !.image_filename = None])
        /\ dragMode' = "none"
        /\ Refresh(text_regions', -1)
        /\ NoWrite
        /\ UNCHANGED <<jp_image_list, jp_current_image_index, jp_image_path,
                       notApp>>

delete_selected_text ==
    \E current_row \in 0 .. MaxRegions - 1 :
        /\ ValidRow(text_regions, current_row)
        /\ text_regions' = RemoveAt(text_regions, current_row + 1)
        /\ dragMode' = "none"
        /\ Refresh(text_regions', -1)
        /\ NoWrite
        /\ UNCHANGED <<jp_image_list, jp_current_image_index, jp_image_path,
                       notApp>>

\* the regions left when the rows of `rows` other than the first are deleted
MergedRegions(regions, rows, first_row) ==
    LET keep == { i \in DOMAIN regions : i - 1 \notin rows \/ i - 1 = first_row }
        Count(i) == Cardinality({ j \in keep : j <= i })
    IN  [n \in 1 .. Cardinality(keep) |->
            regions[CHOOSE i \in keep : Count(i) = n]]

\* at least two highlighted rows, one of them with non-blank text
merge_selected_lines ==
    \E selected_rows \in SUBSET (0 .. MaxRegions - 1) :
        /\ Cardinality(selected_rows) >= 2
        /\ \A row \in selected_rows : ValidRow(text_regions, row)
        /\ LET first_row == CHOOSE r \in selected_rows :
                                \A q \in selected_rows : r <= q
           IN  /\ text_regions' =
                      MergedRegions(text_regions, selected_rows, first_row)
               /\ Refresh(text_regions',
                          IF ValidRow(text_regions', first_row)
                          THEN first_row ELSE -1)
        /\ dragMode' = "none"
        /\ NoWrite
        /\ UNCHANGED <<jp_image_list, jp_current_image_index, jp_image_path,
                       notApp>>

\* the list is emptied; the canvas keeps what it showed
clear_all_texts ==
    /\ text_regions # <<>>
    /\ text_regions' = <<>>
    /\ NoWrite
    /\ UNCHANGED <<jp_image_list, jp_current_image_index, jp_image_path,
                   selected_text_index, dragMode, pixmap, notApp>>

\* rows of an extended-format CSV file: image name, x1, y1, x2, y2 and the
\* is_positioned column as text
CsvRows ==
    { [img_name |-> "a.png", box |-> <<0, 0, 120, 50>>, ip |-> "1"],
      [img_name |-> "",      box |-> <<0, 0, 0, 0>>,    ip |-> "1"],
      [img_name |-> "b.png", box |-> <<10, 10, 40, 40>>, ip |-> "0"] }

\* the ip column taken at its word, whatever the box
CsvPositioned_Forced(ip, positioned, target_bbox) ==
    ip \in {"1", "True", "true"} \/ positioned

\* is_positioned as the row's ip column overrides it
CsvPositioned(ip, positioned, target_bbox) ==
    IF ip \in {"1", "True", "true"} THEN target_bbox # <<>> ELSE positioned

\* the region load_csv builds from one row
CsvRegion(row, is_legacy) ==
    IF is_legacy THEN TextRegion
    ELSE LET b == row.box
             sized == b[3] > b[1] /\ b[4] > b[2]
             target_bbox == IF sized THEN b ELSE <<>>
         IN  [target_bbox |-> target_bbox,
              is_positioned |-> CsvPositioned(row.ip, sized, target_bbox),
              image_filename |-> row.img_name,
              visible |-> TRUE]

\* a row of a legacy file: number and text, no other column
LegacyRow == [img_name |-> "", box |-> <<0, 0, 0, 0>>, ip |-> ""]

\* the files the user can open
CsvFiles ==
    { [is_legacy |-> TRUE, rows |-> r] : r \in SeqsUpTo({LegacyRow}, MaxRegions) }
    \cup
    { [is_legacy |-> FALSE, rows |-> r] : r \in SeqsUpTo(CsvRows, MaxRegions) }

load_csv ==
    \E file \in CsvFiles :
        /\ text_regions' =
               [i \in DOMAIN file.rows |->
                    CsvRegion(file.rows[i], file.is_legacy)]
        /\ pixmap' = update_display_for_current_image(
                         text_regions', jp_image_path,
                         update_display(jp_image_path, text_regions',
                                        jp_image_path, pixmap))
        /\ selected_text_index' =
               KeptSelection(text_regions', jp_image_path,
                             selected_text_index)
        /\ NoWrite
        /\ UNCHANGED <<jp_image_list, jp_current_image_index, jp_image_path,
                       dragMode, notApp>>

\* the row whose edit dialog a double click at `pos` opens, -1 if none:
\* the topmost box of the current image there, unless a handle is hit
DialogRow(regions, path, pos) ==
    LET clicked == get_text_at_position(regions, path, pos)
    IN  IF clicked >= 0 /\ ~get_resize_handle(pos, regions[clicked + 1].target_bbox)
        THEN clicked ELSE -1

\* "bring to front" in the edit dialog: the region becomes the last one
move_to_front ==
    \E pos \in Pointers :
        LET row == DialogRow(text_regions, jp_image_path, pos)
        IN  /\ row >= 0
            /\ text_regions' =
                   Append(RemoveAt(text_regions, row + 1), text_regions[row + 1])
            /\ Refresh(text_regions', selected_text_index)
            /\ NoWrite
            /\ UNCHANGED <<jp_image_list, jp_current_image_index,
                           jp_image_path, dragMode, notApp>>

\* "send to back": the region becomes the first one
move_to_back ==
    \E pos \in Pointers :
        LET row == DialogRow(text_regions, jp_image_path, pos)
        IN  /\ row >= 0
            /\ text_regions' =
                   <<text_regions[row + 1]>> \o RemoveAt(text_regions, row + 1)
            /\ Refresh(text_regions', selected_text_index)
            /\ NoWrite
            /\ UNCHANGED <<jp_image_list, jp_current_image_index,
                           jp_image_path, dragMode, notApp>>

SaveOptions == {"widget_capture", "pil_screen", "pil_hires", "qpainter"}

\* the file one export path writes: save_with_pil_hires is the one drawing
\* loop without a test of region.visible
Exported(save_option, regions, path) ==
    [kind |-> save_option,
     img |-> path,
     drawn |-> Composited(
                   regions,
                   CurrentRegions(regions,
                                  IF path # <<>> THEN Basename(path) ELSE None),
                   save_option # "pil_hires")]

save_result ==
    \E save_option \in SaveOptions :
        /\ jp_image_path # <<>>
        /\ written' = Exported(save_option, text_regions, jp_image_path)
        /\ Refresh(text_regions, selected_text_index)
        /\ UNCHANGED <<text_regions, jp_image_list, jp_current_image_index,
                       jp_image_path, dragMode, notApp>>

InitApp == WrapIdle /\ LayoutIdle /\ GeomIdle /\ EditIdle /\ FaultIdle /\ OcrIdle /\ OtherIdle /\ AppIdle

NextApp ==
    \/ select_japanese_image_folder
    \/ on_jp_image_list_click
    \/ prev_jp_image
    \/ next_jp_image
    \/ on_vision_ocr_completed
    \/ add_manual_text_line
    \/ on_text_dropped
    \/ mousePressEvent
    \/ mouseMoveEvent
    \/ mouseReleaseEvent
    \/ move_selected_text_box
    \/ on_table_item_double_clicked
    \/ reset_text_position
    \/ delete_selected_text
    \/ merge_selected_lines
    \/ clear_all_texts
    \/ load_csv
    \/ move_to_front
    \/ move_to_back
    \/ save_result

SpecApp == InitApp /\ [][NextApp]_vars

\* the regions of a picture all carry the file name of the image under it
OwnImageOnly(picture) ==
    \A d \in picture.drawn :
        picture.img # <<>> /\ d.image_filename = Basename(picture.img)

C7_PositionedIffBoxSet ==
    \A i \in DOMAIN text_regions :
        text_regions[i].is_positioned <=> text_regions[i].target_bbox # <<>>

\* C7 witness: a line that was never dropped on an image has been given a
\* box through the position column, next to a line without position.
C7_ManualEntryPositioned ==
    \E i, j \in DOMAIN text_regions :
        /\ text_regions[i].is_positioned
        /\ text_regions[i].target_bbox = <<10, 10, 40, 40>>
        /\ text_regions[i].image_filename = None
        /\ ~text_regions[j].is_positioned
        /\ text_regions[j].target_bbox = <<>>

-----------------------------------------------------------------------------
(* The export paths on region collections of the data model                *)
(*                                                                         *)
(* TextRegion.visible is a field of the data model that the drawing loops  *)
(* read; no handler of the main window assigns it.  The export paths are   *)
(* therefore also run on every region collection the data model allows,    *)
(* hidden regions included, with one image of folder d1 loaded.            *)

ExportRegions ==
    { [target_bbox |-> b, is_positioned |-> b # <<>>,
       image_filename |-> f, visible |-> v] :
        b \in {<<>>, <<0, 0, 120, 50>>},
        f \in {None, "a.png", "b.png"},
        v \in BOOLEAN }

InitExport ==
    /\ WrapIdle
    /\ LayoutIdle
    /\ GeomIdle
    /\ EditIdle
    /\ FaultIdle
    /\ OcrIdle /\ OtherIdle
    /\ text_regions \in SeqsUpTo(ExportRegions, MaxRegions)
    /\ jp_image_list = Folders.d1
    /\ jp_current_image_index \in {0, 1}
    /\ jp_image_path = jp_image_list[jp_current_image_index + 1]
    /\ selected_text_index = -1
    /\ dragMode = "none"
    /\ pixmap = update_display_for_current_image(text_regions, jp_image_path,
                                                 NoPixmap)
    /\ written = NoFile

NextExport == save_result

SpecExport == InitExport /\ [][NextExport]_vars

C28_SelectionIsMinusOneOrValid ==
    selected_text_index = -1 \/ ValidRow(text_regions, selected_text_index)

\* a region was selected on the canvas and the list has been emptied since:
\* the canvas still holds the index 0
C28_SelectionOutlivesClearAll ==
    /\ text_regions = <<>>
    /\ selected_text_index = 0
    /\ jp_image_path # <<>>
-----------------------------------------------------------------------------
(* Geometry of a region's box under the interactive edits                  *)
(*                                                                         *)
(* One region and one loaded target image.  A box is <<x1, y1, x2, y2>>,   *)
(* a pointer position <<x, y>> in image coordinates.                       *)

\* box writes explored from the start of a session
MaxBoxWrites == 3

\* the handler named `edit` writes the box
Wrote(edit) ==
    /\ gWrites < MaxBoxWrites
    /\ gWrites' = gWrites + 1
    /\ gEdit' = edit

text_width == 120
text_height == 50
min_size == 30

\* sizes of the target image: one larger than the default box, one smaller
GeomImages == { [w |-> 124, h |-> 53], [w |-> 100, h |-> 40] }

\* pointer positions; _get_image_position keeps those inside the image
GeomPointers ==
    { <<5, 5>>, <<62, 26>>, <<95, 35>>, <<120, 50>>, <<122, 26>>, <<123, 26>> }

OnImage(pos, img) ==
    0 <= pos[1] /\ pos[1] < img.w /\ 0 <= pos[2] /\ pos[2] < img.h

\* dropEvent: the default box centred on the pointer, then limited
DropBox(pos, img) ==
    LET x == pos[1]
        y == pos[2]
        b == <<x - text_width \div 2, y - text_height \div 2,
               x + text_width \div 2, y + text_height \div 2>>
    IN  << Max(0, Min(b[1], img.w - text_width)),
           Max(0, Min(b[2], img.h - text_height)),
           Max(text_width, Min(b[3], img.w)),
           Max(text_height, Min(b[4], img.h)) >>

\* the "safety clamp" at the end of move_text_box and resize_text_box
SafetyClamp(b, img) ==
    LET x1 == Max(0, Min(b[1], img.w - 2))
        y1 == Max(0, Min(b[2], img.h - 2))
    IN  << x1, y1,
           Max(x1 + 1, Min(b[3], img.w - 1)),
           Max(y1 + 1, Min(b[4], img.h - 1)) >>

\* the box translated by (dx, dy) and kept on the image with its size
Translated(b, dx, dy, img) ==
    LET width == b[3] - b[1]
        height == b[4] - b[2]
        new_x1 == Max(0, Min(b[1] + dx, img.w - width))
        new_y1 == Max(0, Min(b[2] + dy, img.h - height))
    IN  <<new_x1, new_y1, new_x1 + width, new_y1 + height>>

\* move_text_box past its early returns
MovedBox(start_bbox, dx, dy, img) ==
    SafetyClamp(Translated(start_bbox, dx, dy, img), img)

\* the corner arithmetic of resize_text_box
Resized(handle, b, dx, dy, img) ==
    LET right == Max(b[1] + min_size,
                     Min(Max(b[1] + min_size, b[3] + dx), img.w))
        bottom == Max(b[2] + min_size,
                      Min(Max(b[2] + min_size, b[4] + dy), img.h))
        left == Max(0, Min(Min(b[3] - min_size, b[1] + dx), b[3] - min_size))
        top == Max(0, Min(Min(b[4] - min_size, b[2] + dy), b[4] - min_size))
    IN  CASE handle = "se" -> <<b[1], b[2], right, bottom>>
          [] handle = "ne" -> <<b[1], top, right, b[4]>>
          [] handle = "sw" -> <<left, b[2], b[3], bottom>>
          [] handle = "nw" -> <<left, top, b[3], b[4]>>

\* resize_text_box past its early returns
ResizedBox(handle, start_bbox, dx, dy, img) ==
    SafetyClamp(Resized(handle, start_bbox, dx, dy, img), img)

\* the corner handle under the pointer, "" if none
HandleAt(pos, b) ==
    IF Inside(pos, <<b[3] - effective_size, b[4] - effective_size, b[3], b[4]>>)
    THEN "se"
    ELSE IF Inside(pos, <<b[3] - effective_size, b[2], b[3], b[2] + effective_size>>)
    THEN "ne"
    ELSE IF Inside(pos, <<b[1], b[4] - effective_size, b[1] + effective_size, b[4]>>)
    THEN "sw"
    ELSE IF Inside(pos, <<b[1], b[2], b[1] + effective_size, b[2] + effective_size>>)
    THEN "nw"
    ELSE ""

\* a table row is dropped on the canvas
GeomDrop ==
    \E pos \in GeomPointers :
        /\ OnImage(pos, gImg)
        /\ gBox' = DropBox(pos, gImg)
        /\ gOwned' = TRUE
        /\ Wrote("drop")
        /\ UNCHANGED <<gImg, gSelected, gMode, gHandle, gStart, notGeom>>

\* the left button goes down on the region's box
GeomPress ==
    \E pos \in GeomPointers :
        /\ OnImage(pos, gImg)
        /\ gOwned /\ gBox # <<>> /\ Inside(pos, gBox)
        /\ gSelected' = TRUE
        /\ gHandle' = HandleAt(pos, gBox)
        /\ gMode' = IF gHandle' # "" THEN "resizing" ELSE "moving"
        /\ UNCHANGED <<gImg, gBox, gOwned, gStart, gEdit, gWrites, notGeom>>

\* the pointer moves with the button down: the first event of a gesture
\* records where it began, the later ones write the box
GeomDrag ==
    \E pos \in GeomPointers :
        /\ OnImage(pos, gImg)
        /\ gSelected /\ gMode # "none"
        /\ gOwned /\ gBox # <<>>
        /\ IF gStart = <<>>
           THEN /\ gStart' = <<pos, gBox>>
                /\ UNCHANGED <<gBox, gEdit, gWrites>>
           ELSE LET dx == pos[1] - gStart[1][1]
                    dy == pos[2] - gStart[1][2]
                IN  /\ dx # 0 \/ dy # 0
                    /\ gBox' = IF gMode = "resizing"
                               THEN ResizedBox(gHandle, gStart[2], dx, dy, gImg)
                               ELSE MovedBox(gStart[2], dx, dy, gImg)
                    /\ Wrote(IF gMode = "resizing" THEN "resize" ELSE "move")
                    /\ UNCHANGED gStart
        /\ UNCHANGED <<gImg, gOwned, gSelected, gMode, gHandle, notGeom>>

GeomRelease ==
    /\ gSelected
    /\ gMode' = "none"
    /\ gHandle' = ""
    /\ gStart' = <<>>
    /\ UNCHANGED <<gImg, gBox, gOwned, gSelected, gEdit, gWrites, notGeom>>

ArrowKeys == { <<0, -1>>, <<0, 1>>, <<-1, 0>>, <<1, 0>> }

\* move_selected_text_box
GeomArrow ==
    \E d \in ArrowKeys :
        /\ gSelected /\ gOwned /\ gBox # <<>>
        /\ gBox' = Translated(gBox, d[1], d[2], gImg)
        /\ Wrote("arrow")
        /\ UNCHANGED <<gImg, gOwned, gSelected, gMode, gHandle, gStart, notGeom>>

\* "x,y,width,height" typed into the position column of the table
GeomEntries ==
    { <<10, 10, 60, 30>>, <<500, 500, 10, 10>>, <<5, 5, 0, 0>>, <<121, 0, 2, 50>> }

GeomManualEntry ==
    \E e \in GeomEntries :
        /\ gBox' = <<e[1], e[2], e[1] + e[3], e[2] + e[4]>>
        /\ Wrote("manual")
        /\ UNCHANGED <<gImg, gOwned, gSelected, gMode, gHandle, gStart, notGeom>>

InitGeom ==
    /\ WrapIdle
    /\ LayoutIdle
    /\ AppIdle
    /\ EditIdle
    /\ FaultIdle
    /\ OcrIdle /\ OtherIdle
    /\ gImg \in GeomImages
    /\ gBox = <<>>
    /\ gOwned = FALSE
    /\ gSelected = FALSE
    /\ gMode = "none"
    /\ gHandle = ""
    /\ gStart = <<>>
    /\ gEdit = "none"
    /\ gWrites = 0

NextGeom ==
    \/ GeomDrop
    \/ GeomPress
    \/ GeomDrag
    \/ GeomRelease
    \/ GeomArrow
    \/ GeomManualEntry

SpecGeom == InitGeom /\ [][NextGeom]_vars

WithinImage(b, img) ==
    0 <= b[1] /\ b[1] <= b[3] /\ b[3] <= img.w /\
    0 <= b[2] /\ b[2] <= b[4] /\ b[4] <= img.h

\* C6: after an interactive edit has written the box of a region of the
\* loaded image, the box lies within the image and is at least 2 pixels
\* wide and 2 pixels high.
C6_BoxWithinImageMinTwo ==
    (gEdit # "none" /\ gOwned) =>
        /\ WithinImage(gBox, gImg)
        /\ gBox[3] - gBox[1] >= 2
        /\ gBox[4] - gBox[2] >= 2

\* C6 witness: a box typed into the position column of a region of the
\* loaded image ends right of and below the image.
C6_ManualEntryOutsideImage ==
    /\ gEdit = "manual"
    /\ gOwned
    /\ gBox[3] > gImg.w
    /\ gBox[4] > gImg.h


BoxWidth(b) == b[3] - b[1]

BoxHeight(b) == b[4] - b[2]

\* C30: a move of the box by a drag or by an arrow key, against an edge of the
\* image or not, leaves its width and its height as they were before the move.
C30_MoveKeepsSize ==
    [][(gWrites' # gWrites /\ gEdit' \in {"move", "arrow"}) =>
           /\ BoxWidth(gBox') = BoxWidth(gBox)
           /\ BoxHeight(gBox') = BoxHeight(gBox)]_vars

\* a box dragged against the right edge of the image: it ends one column
\* before the edge and is one column narrower than when the drag began
C30_DragAgainstRightEdgeShrinks ==
    /\ gEdit = "move"
    /\ gMode = "moving"
    /\ gStart # <<>>
    /\ gStart[2][3] < gImg.w - 1
    /\ gBox[3] = gImg.w - 1
    /\ BoxWidth(gBox) = BoxWidth(gStart[2]) - 1
    /\ BoxHeight(gBox) = BoxHeight(gStart[2])
-----------------------------------------------------------------------------
(* The stroke of a region under the edit dialog                            *)
(*                                                                         *)
(* A colour is <<r, g, b>>, no colour (None) is <<>>.  The dialog's        *)
(* handlers write the region while the dialog is open, so cancelling keeps *)
(* what they wrote.                                                        *)

\* range of the dialog's spin box
StrokeWidthMax == 20

\* colours picked in the colour dialog
StrokeColors == { <<0, 0, 0>>, <<255, 0, 0>>, <<0, 0, 255>> }

Stroke(color, width) == [stroke_color |-> color, stroke_width |-> width]

\* the width handler that keeps the colour at width 0
on_stroke_width_changed_KeepsColor(color, value) ==
    Stroke(IF color = <<>> /\ value # 0 THEN <<0, 0, 0>> ELSE color, value)

\* on_stroke_width_changed on a region whose colour is `color`
on_stroke_width_changed(color, value) ==
    Stroke(IF value = 0 THEN <<>>
           ELSE IF color = <<>> THEN <<0, 0, 0>> ELSE color,
           value)

\* the stroke block run when the dialog is accepted
AcceptedStroke(color, width, spin) ==
    LET w == IF width # spin THEN spin ELSE width
    IN  Stroke(IF w = 0 THEN <<>>
               ELSE IF color = <<>> /\ w > 0 THEN <<0, 0, 0>> ELSE color,
               w)

\* bookkeeping of the handler named `handler`
Ran(handler) ==
    /\ eLast' = handler
    /\ ePrev' = Stroke(stroke_color, stroke_width)

\* a double click on the box opens the dialog on the region
edit_text_dialog ==
    /\ dialog = "closed"
    /\ dialog' = "open"
    /\ stroke_width_spin' = stroke_width
    /\ eOpened' = Stroke(stroke_color, stroke_width)
    /\ Ran("open")
    /\ UNCHANGED <<stroke_color, stroke_width, notEdit>>

\* a valid colour comes back from the colour dialog; setValue(1) on the
\* spin box runs on_stroke_width_changed(1) before the handler returns
choose_stroke_color ==
    \E color \in StrokeColors :
        /\ dialog = "open"
        /\ IF stroke_width = 0
           THEN LET s == IF stroke_width_spin # 1
                         THEN on_stroke_width_changed(color, 1)
                         ELSE Stroke(color, 1)
                IN  /\ stroke_color' = s.stroke_color
                    /\ stroke_width' = s.stroke_width
                    /\ stroke_width_spin' = 1
           ELSE /\ stroke_color' = color
                /\ UNCHANGED <<stroke_width, stroke_width_spin>>
        /\ Ran("color")
        /\ UNCHANGED <<dialog, eOpened, notEdit>>

\* the user changes the spin box to another value
StrokeWidthEdited ==
    \E value \in 0 .. StrokeWidthMax :
        /\ dialog = "open"
        /\ value # stroke_width_spin
        /\ stroke_width_spin' = value
        /\ LET s == on_stroke_width_changed(stroke_color, value)
           IN  /\ stroke_color' = s.stroke_color
               /\ stroke_width' = s.stroke_width
        /\ Ran("width")
        /\ UNCHANGED <<dialog, eOpened, notEdit>>

DialogAccepted ==
    /\ dialog = "open"
    /\ dialog' = "closed"
    /\ LET s == AcceptedStroke(stroke_color, stroke_width, stroke_width_spin)
       IN  /\ stroke_color' = s.stroke_color
           /\ stroke_width' = s.stroke_width
    /\ Ran("accept")
    /\ UNCHANGED <<stroke_width_spin, eOpened, notEdit>>

DialogRejected ==
    /\ dialog = "open"
    /\ dialog' = "closed"
    /\ Ran("cancel")
    /\ UNCHANGED <<stroke_color, stroke_width, stroke_width_spin, eOpened, notEdit>>

InitEdit == WrapIdle /\ LayoutIdle /\ AppIdle /\ GeomIdle /\ FaultIdle /\ OcrIdle /\ OtherIdle /\ EditIdle

NextEdit ==
    \/ edit_text_dialog
    \/ choose_stroke_color
    \/ StrokeWidthEdited
    \/ DialogAccepted
    \/ DialogRejected

SpecEdit == InitEdit /\ [][NextEdit]_vars

\* C8: after any handler of the edit dialog, in any order, the stroke width
\* is 0 exactly when the stroke colour is None.
C8_ZeroWidthIffNoColor ==
    stroke_width = 0 <=> stroke_color = <<>>

\* C8 witness: a red stroke of width 3 has just lost its colour because the
\* width was set to 0.
C8_ColorClearedAtZeroWidth ==
    /\ eLast = "width"
    /\ ePrev = Stroke(<<255, 0, 0>>, 3)
    /\ stroke_width = 0
    /\ stroke_color = <<>>


\* C29: when the edit dialog has been cancelled, the region's stroke colour
\* and width are what they were when the dialog was opened.
C29_CancelRestoresRegion ==
    eLast = "cancel" => Stroke(stroke_color, stroke_width) = eOpened

\* the dialog was opened on a region without a stroke, red was picked, and
\* the dialog was cancelled: the region has a red stroke of width 1
C29_CancelKeepsPickedStroke ==
    /\ eLast = "cancel"
    /\ dialog = "closed"
    /\ eOpened = Stroke(<<>>, 0)
    /\ stroke_color = <<255, 0, 0>>
    /\ stroke_width = 1
-----------------------------------------------------------------------------
(* One render of the regions of the loaded image when rendering a region   *)
(* can raise                                                               *)
(*                                                                         *)
(* The regions are the visible, positioned regions of the loaded image, in *)
(* drawing order.  For each one the environment decides where the body     *)
(* that renders it raises an exception no inner handler covers: nowhere,   *)
(* before anything is drawn for it ("start"), or after its background was  *)
(* drawn ("text").                                                         *)

MaxFaultRegions == 3

FaultKinds == {"none", "start", "text"}

\* what draw_korean_text_optimized leaves on text_layer for one region
LayerOf(fault) ==
    IF fault = "none" THEN "text"
    ELSE IF fault = "text" THEN "background" ELSE "nothing"

\* update_display_with_preview: each region is drawn under the handler of
\* draw_korean_text_optimized, which writes the fallback text into
\* display_img; after the loop display_img is overwritten with the blend of
\* the image and text_layer whenever there is a region to draw
PreviewWithFaults(faults) ==
    LET putText == {k \in 1..Len(faults) : faults[k] # "none"}
    IN  [aborted |-> FALSE, shown |-> TRUE,
         regions |-> [k \in 1..Len(faults) |-> LayerOf(faults[k])],
         fallbacks |-> IF Len(faults) > 0 THEN {} ELSE putText]

\* an export path: the loop over the regions is inside the one try of the
\* function, whose handler logs and raises again; save_result shows the
\* error and no file is written
ExportWithFaults(faults) ==
    IF \E k \in 1..Len(faults) : faults[k] # "none"
    THEN [aborted |-> TRUE, shown |-> FALSE,
          regions |-> [k \in 1..Len(faults) |-> "nothing"], fallbacks |-> {}]
    ELSE [aborted |-> FALSE, shown |-> TRUE,
          regions |-> [k \in 1..Len(faults) |-> "text"], fallbacks |-> {}]

InitFault ==
    /\ WrapIdle
    /\ LayoutIdle
    /\ AppIdle
    /\ GeomIdle
    /\ EditIdle
    /\ OcrIdle /\ OtherIdle
    /\ fFaults \in SeqsUpTo(FaultKinds, MaxFaultRegions)
    /\ fPath = "ready"
    /\ fOut = NoRender

FaultPreview ==
    /\ fPath = "ready"
    /\ fPath' = "preview"
    /\ fOut' = PreviewWithFaults(fFaults)
    /\ UNCHANGED <<fFaults, notFault>>

FaultWidgetCapture ==
    /\ fPath = "ready"
    /\ fPath' = "widget_capture"
    /\ fOut' = ExportWithFaults(fFaults)
    /\ UNCHANGED <<fFaults, notFault>>

FaultPilScreen ==
    /\ fPath = "ready"
    /\ fPath' = "pil_screen"
    /\ fOut' = ExportWithFaults(fFaults)
    /\ UNCHANGED <<fFaults, notFault>>

FaultPilHires ==
    /\ fPath = "ready"
    /\ fPath' = "pil_hires"
    /\ fOut' = ExportWithFaults(fFaults)
    /\ UNCHANGED <<fFaults, notFault>>

FaultQPainter ==
    /\ fPath = "ready"
    /\ fPath' = "qpainter"
    /\ fOut' = ExportWithFaults(fFaults)
    /\ UNCHANGED <<fFaults, notFault>>

NextFault ==
    \/ FaultPreview
    \/ FaultWidgetCapture
    \/ FaultPilScreen
    \/ FaultPilHires
    \/ FaultQPainter

SpecFault == InitFault /\ [][NextFault]_vars

\* C17: in the preview and in every export path an exception raised while
\* one region is rendered does not abort the render; that region gets the
\* fallback draw and every other region is rendered.
C17_FaultyRegionFallsBack ==
    fPath \notin {"idle", "ready"} =>
        /\ ~fOut.aborted
        /\ fOut.shown
        /\ \A k \in 1..Len(fFaults) :
            IF fFaults[k] = "none" THEN fOut.regions[k] = "text"
            ELSE k \in fOut.fallbacks

\* a standard export of two regions, the second of which raises: the export
\* is abandoned and the first region is not in any file either
C17_ExportAborted ==
    /\ fPath = "pil_screen"
    /\ fFaults = <<"none", "start">>
    /\ fOut.aborted
    /\ ~fOut.shown
    /\ fOut.regions = <<"nothing", "nothing">>

(***************************************************************************)
(* Cloud OCR: run_vision_ocr starts a worker thread, the worker emits one  *)
(* signal, and the slot connected to it runs in the window's thread        *)
(***************************************************************************)

MaxOcrRuns == 2
\* the lines all runs together may extract
MaxOcrLines == 3

\* the import of google.cloud.vision succeeded; without it no key file is
\* ever accepted and the OCR button stays disabled
CLOUD_VISION_AVAILABLE == TRUE

RECURSIVE LStrip(_)
LStrip(s) == IF s # <<>> /\ IsSpace(Head(s)) THEN LStrip(Tail(s)) ELSE s

RECURSIVE RStrip(_)
RStrip(s) ==
    IF s # <<>> /\ IsSpace(s[Len(s)]) THEN RStrip(SubSeq(s, 1, Len(s) - 1)) ELSE s

\* str.strip()
Strip(s) == RStrip(LStrip(s))

\* [line.strip() for line in pieces if line.strip()]
RECURSIVE StrippedLines(_)
StrippedLines(pieces) ==
    IF pieces = <<>> THEN <<>>
    ELSE (IF Strip(Head(pieces)) # <<>> THEN <<Strip(Head(pieces))>> ELSE <<>>)
             \o StrippedLines(Tail(pieces))

\* what text_detection answers: the description of the first annotation,
\* <<>> when there is no annotation or the description is empty
OcrTexts ==
    { <<>>,
      <<LatinA>>,
      <<SPACE, LatinA, SPACE, NL, NL, LatinB>>,
      <<NL, SPACE, NL>>,
      <<LatinB, NL, LatinA>> }

\* the words the classification looks for
ErrorWords == {"permission", "forbidden", "invalid", "not found", "quota", "limit"}

\* str(e) of what open() or the API call raised: the words of ErrorWords its
\* lower-cased text contains, and whether it spans several lines
ErrorMessages ==
    {[words |-> {w}, newline |-> FALSE] : w \in ErrorWords}
        \cup {[words |-> {}, newline |-> n] : n \in BOOLEAN}
        \cup {[words |-> {"limit", "forbidden"}, newline |-> FALSE],
              [words |-> {"quota", "invalid"}, newline |-> FALSE]}

\* the if/elif chain of the handler in extract_text_full_image_vision
Classify(error_msg) ==
    IF "permission" \in error_msg.words \/ "forbidden" \in error_msg.words
    THEN "permission"
    ELSE IF "invalid" \in error_msg.words \/ "not found" \in error_msg.words
         THEN "auth"
         ELSE IF "quota" \in error_msg.words \/ "limit" \in error_msg.words
              THEN "quota"
              ELSE "generic"

\* the three fixed messages span several lines; the generic one is a prefix
\* and the original text
Reraised(error_msg) ==
    [class |-> Classify(error_msg),
     newline |-> Classify(error_msg) # "generic" \/ error_msg.newline]

\* what the API call does: answers a text or raises
ApiOutcomes ==
    {[raised |-> FALSE, full_text |-> t, error_msg |-> [words |-> {}, newline |-> FALSE]] :
        t \in OcrTexts}
        \cup {[raised |-> TRUE, full_text |-> <<>>, error_msg |-> e] : e \in ErrorMessages}

\* without a client the function logs and returns no lines; it does not raise
extract_text_full_image_vision(client, api) ==
    IF ~CLOUD_VISION_AVAILABLE \/ client = "none"
    THEN [raised |-> FALSE, texts |-> <<>>, message |-> Reraised(api.error_msg)]
    ELSE IF api.raised
         THEN [raised |-> TRUE, texts |-> <<>>, message |-> Reraised(api.error_msg)]
         ELSE [raised |-> FALSE,
               texts |-> IF api.full_text = <<>> THEN <<>>
                         ELSE StrippedLines(SplitLines(api.full_text, <<>>, <<>>)),
               message |-> Reraised(api.error_msg)]

\* the worker swallows the exception and emits nothing
ocr_worker_emits_NoFailure(r) ==
    IF r.raised THEN <<>>
    ELSE <<[signal |-> "completed", payload |-> r.texts]>>

\* the signals ocr_worker emits for what the extraction gave
ocr_worker_emits(r) ==
    IF r.raised THEN <<[signal |-> "failed", payload |-> r.message]>>
    ELSE <<[signal |-> "completed", payload |-> r.texts]>>

\* the slots would run in the thread that emits
ReceiverThread_Direct == "worker"

\* both signals are connected with the default connection type and belong to
\* the window, which lives in the interaction thread: a signal emitted from
\* another thread is queued and its slot runs in the interaction thread
ReceiverThread == "ui"

\* TextRegion(text=..., font_size=default_font_size, margin=2) and the fields
\* the caller then sets
NewTextRegion(text, font_size, is_manual) ==
    [text |-> text, font_size |-> font_size, margin |-> 2, wrap_mode |-> "word",
     target_bbox |-> <<>>, is_positioned |-> FALSE, image_filename |-> None,
     is_manual |-> is_manual, visible |-> TRUE]

\* the loop inserting each new region before the ones it added
RECURSIVE OcrRegions_Reversed(_, _)
OcrRegions_Reversed(text_lines, font_size) ==
    IF text_lines = <<>> THEN <<>>
    ELSE OcrRegions_Reversed(Tail(text_lines), font_size)
             \o <<NewTextRegion(Strip(Head(text_lines)), font_size, FALSE)>>

\* "for text_line in text_lines: if text_line.strip(): ... append"
RECURSIVE OcrRegions(_, _)
OcrRegions(text_lines, font_size) ==
    IF text_lines = <<>> THEN <<>>
    ELSE (IF Strip(Head(text_lines)) # <<>>
          THEN <<NewTextRegion(Strip(Head(text_lines)), font_size, FALSE)>>
          ELSE <<>>)
             \o OcrRegions(Tail(text_lines), font_size)

\* the font sizes the window starts with: 18, or the one in the settings file
DefaultFontSizes == {18, 24}

\* what the user types into the "add line" dialog
ManualTexts == {<<SPACE, LatinB>>}

\* the lines the user adds by hand
MaxManualLines == 1

KrImagePath == <<"kr", "page.png">>

InitOcr ==
    /\ WrapIdle
    /\ LayoutIdle
    /\ AppIdle
    /\ GeomIdle
    /\ EditIdle
    /\ FaultIdle
    /\ OtherIdle
    /\ vision_ocr_btn = FALSE
    /\ vision_client = "none"
    /\ kr_image_path = <<>>
    /\ default_font_size \in DefaultFontSizes
    /\ ocr_thread = 0
    /\ signals = <<>>
    /\ message_box = <<>>
    /\ oRuns = NoRuns
    /\ oTouched = {}
    /\ oLast = NoOutcome

\* the user picks a key file; the dialog cancelled changes nothing
set_vision_credentials_dialog ==
    /\ message_box = <<>>
    /\ \E success \in BOOLEAN :
        /\ vision_client' = IF success /\ CLOUD_VISION_AVAILABLE THEN "client" ELSE "none"
        /\ vision_ocr_btn' = (success /\ CLOUD_VISION_AVAILABLE)
        /\ message_box' =
               Append(message_box,
                      IF success /\ CLOUD_VISION_AVAILABLE THEN "information" ELSE "warning")
    /\ UNCHANGED <<kr_image_path, default_font_size, ocr_thread, signals, oRuns,
                   oTouched, oLast, text_regions, notOcr>>

load_current_korean_image ==
    /\ message_box = <<>>
    /\ kr_image_path = <<>>
    /\ kr_image_path' = KrImagePath
    /\ UNCHANGED <<vision_ocr_btn, vision_client, default_font_size, ocr_thread,
                   signals, message_box, oRuns, oTouched, oLast, text_regions, notOcr>>

\* the click on the OCR button; reply is the answer to the cost question
run_vision_ocr ==
    /\ message_box = <<>>
    /\ vision_ocr_btn
    /\ IF ~CLOUD_VISION_AVAILABLE \/ vision_client = "none" \/ kr_image_path = <<>>
       THEN /\ message_box' = Append(message_box, "warning")
            /\ UNCHANGED <<vision_ocr_btn, ocr_thread, oRuns>>
       ELSE \E reply \in {"Yes", "No"} :
            IF reply # "Yes"
            THEN UNCHANGED <<message_box, vision_ocr_btn, ocr_thread, oRuns>>
            ELSE /\ oRuns.started < MaxOcrRuns
                 /\ vision_ocr_btn' = FALSE
                 /\ ocr_thread' = ocr_thread + 1
                 /\ oRuns' = [oRuns EXCEPT !.asked = @ + 1, !.started = @ + 1]
                 /\ UNCHANGED message_box
    /\ UNCHANGED <<vision_client, kr_image_path, default_font_size, signals,
                   oTouched, oLast, text_regions, notOcr>>

\* the worker thread, from its start to its emit; it reads vision_client
\* while the interaction thread may replace it, and sees the client that
\* run_vision_ocr found or the one that is there now
ocr_worker ==
    /\ ocr_thread > 0
    /\ \E api \in ApiOutcomes, client \in {"client", vision_client} :
        LET r == extract_text_full_image_vision(client, api)
        IN  /\ oRuns.lines + Len(r.texts) <= MaxOcrLines
            /\ signals' = signals \o ocr_worker_emits(r)
            /\ oRuns' = [oRuns EXCEPT !.emitted = @ + Len(ocr_worker_emits(r)),
                                      !.lines = @ + Len(r.texts)]
    /\ ocr_thread' = ocr_thread - 1
    /\ oTouched' = oTouched \cup {<<"worker", "ocr_engine">>, <<"worker", "kr_image_path">>}
    /\ UNCHANGED <<vision_ocr_btn, vision_client, kr_image_path, default_font_size,
                   message_box, oLast, text_regions, notOcr>>

\* on_vision_ocr_completed as the slot of the queued signal
on_vision_ocr_completed_queued ==
    /\ signals # <<>>
    /\ Head(signals).signal = "completed"
    /\ LET text_lines == Head(signals).payload
       IN  /\ vision_ocr_btn' = TRUE
           /\ IF text_lines = <<>>
              THEN /\ UNCHANGED <<text_regions, oTouched>>
                   /\ message_box' = Append(message_box, "information")
              ELSE /\ text_regions' = text_regions \o OcrRegions(text_lines, default_font_size)
                   /\ oTouched' = oTouched \cup {<<ReceiverThread, "text_regions">>}
                   /\ message_box' = Append(message_box, "information")
           /\ oLast' = [signal |-> "completed", payload |-> text_lines,
                        thread |-> ReceiverThread]
    /\ signals' = Tail(signals)
    /\ oRuns' = [oRuns EXCEPT !.delivered = @ + 1]
    /\ UNCHANGED <<vision_client, kr_image_path, default_font_size, ocr_thread, notOcr>>

\* on_vision_ocr_failed as the slot of the queued signal; both branches on
\* "\n" in error_message show a critical box
on_vision_ocr_failed_queued ==
    /\ signals # <<>>
    /\ Head(signals).signal = "failed"
    /\ vision_ocr_btn' = TRUE
    /\ message_box' = Append(message_box, "critical")
    /\ oLast' = [signal |-> "failed", payload |-> Head(signals).payload,
                 thread |-> ReceiverThread]
    /\ signals' = Tail(signals)
    /\ oRuns' = [oRuns EXCEPT !.delivered = @ + 1]
    /\ UNCHANGED <<vision_client, kr_image_path, default_font_size, ocr_thread,
                   oTouched, text_regions, notOcr>>

\* the user closes the message box on top
close_message_box ==
    /\ message_box # <<>>
    /\ message_box' = SubSeq(message_box, 1, Len(message_box) - 1)
    /\ UNCHANGED <<vision_ocr_btn, vision_client, kr_image_path, default_font_size,
                   ocr_thread, signals, oRuns, oTouched, oLast, text_regions, notOcr>>

\* add_manual_text_line while OCR runs may be in flight
add_manual_text_line_ocr ==
    /\ message_box = <<>>
    /\ Len(SelectSeq(text_regions, LAMBDA region : region.is_manual)) < MaxManualLines
    /\ \E text \in ManualTexts :
        text_regions' = Append(text_regions, NewTextRegion(text, default_font_size, TRUE))
    /\ oTouched' = oTouched \cup {<<"ui", "text_regions">>}
    /\ UNCHANGED <<vision_ocr_btn, vision_client, kr_image_path, default_font_size,
                   ocr_thread, signals, message_box, oRuns, oLast, notOcr>>

NextOcr ==
    \/ set_vision_credentials_dialog
    \/ load_current_korean_image
    \/ run_vision_ocr
    \/ ocr_worker
    \/ on_vision_ocr_completed_queued
    \/ on_vision_ocr_failed_queued
    \/ close_message_box
    \/ add_manual_text_line_ocr

SpecOcr == InitOcr /\ [][NextOcr]_vars

\* a started thread runs to its emit, and the event loop of the window
\* delivers every queued signal
SpecOcrLive ==
    /\ SpecOcr
    /\ WF_vars(ocr_worker)
    /\ WF_vars(on_vision_ocr_completed_queued)
    /\ WF_vars(on_vision_ocr_failed_queued)

(***************************************************************************)
(* Properties of the cloud OCR run                                         *)
(***************************************************************************)

\* C18: the OCR worker thread never reads or writes text_regions or a
\* region; what it hands over is a list of strings, and every access to
\* text_regions is made by the interaction thread.
C18_RegionsOwnedByUiThread ==
    /\ \A access \in oTouched : access[2] = "text_regions" => access[1] = "ui"
    /\ \A access \in oTouched : access[1] = "worker" => access[2] # "text_regions"
    /\ oLast.signal # "none" => oLast.thread = "ui"
    /\ \A k \in 1 .. Len(signals) :
        signals[k].signal = "completed" =>
            \A i \in 1 .. Len(signals[k].payload) :
                signals[k].payload[i] \in Seq(Alphabet)

\* regions were appended by the slot while a second worker thread was still
\* running
C18_AppendedWhileWorkerRuns ==
    /\ oLast.signal = "completed"
    /\ oLast.payload # <<>>
    /\ text_regions # <<>>
    /\ ~text_regions[Len(text_regions)].is_manual
    /\ <<"ui", "text_regions">> \in oTouched
    /\ <<"worker", "ocr_engine">> \in oTouched
    /\ ocr_thread > 0

\* C19: the delivery of a completed run with lines L1..Ln appends one region
\* per non-empty line, in order, with the default font size and margin, not
\* positioned and without a target box, and leaves the regions that were
\* there as they were and where they were.
C19_CompletionAppendsOneRegionPerLine ==
    [][(/\ signals # <<>>
        /\ Head(signals).signal = "completed"
        /\ oRuns'.delivered = oRuns.delivered + 1)
       => LET kept == SelectSeq(Head(signals).payload, LAMBDA line : line # <<>>)
              n == Len(text_regions)
          IN  /\ Len(text_regions') = n + Len(kept)
              /\ SubSeq(text_regions', 1, n) = text_regions
              /\ \A k \in 1 .. Len(kept) :
                    /\ text_regions'[n + k].text = kept[k]
                    /\ text_regions'[n + k].font_size = default_font_size
                    /\ text_regions'[n + k].margin = 2
                    /\ text_regions'[n + k].wrap_mode = "word"
                    /\ ~text_regions'[n + k].is_positioned
                    /\ text_regions'[n + k].target_bbox = <<>>
                    /\ text_regions'[n + k].image_filename = None
                    /\ ~text_regions'[n + k].is_manual]_vars

\* two lines arrive when the list holds one line the user typed
C19_TwoLinesAfterManualLine ==
    /\ oLast.signal = "completed"
    /\ oLast.payload = <<(<<LatinA>>), (<<LatinB>>)>>
    /\ message_box # <<>>
    /\ Len(text_regions) = 3
    /\ text_regions[1].is_manual
    /\ text_regions[2].text = <<LatinA>>
    /\ text_regions[3].text = <<LatinB>>

OutcomeClasses == {"permission", "auth", "quota", "generic"}

\* every outcome is accounted for: a run is either running, or its signal
\* is queued, or it was delivered; threads are started by the button only
OneOutcomePerRun ==
    /\ oRuns.started = oRuns.asked
    /\ oRuns.started = ocr_thread + Len(signals) + oRuns.delivered
    /\ oRuns.emitted = Len(signals) + oRuns.delivered

\* the delivery of a failure shows a critical box with a classified message,
\* and no step but the confirmed click starts a thread
FailureShownNotRetried ==
    /\ (/\ signals # <<>>
        /\ Head(signals).signal = "failed"
        /\ oRuns'.delivered = oRuns.delivered + 1)
       => /\ Head(signals).payload.class \in OutcomeClasses
          /\ message_box' = Append(message_box, "critical")
          /\ ocr_thread' = ocr_thread
          /\ oRuns'.started = oRuns.started
    /\ ocr_thread' > ocr_thread
       => /\ message_box = <<>>
          /\ vision_ocr_btn
          /\ oRuns'.asked = oRuns.asked + 1

C27_AtMostOneWorker ==
    /\ ocr_thread <= 1
    /\ ocr_thread + Len(signals) > 0 => ~vision_ocr_btn

\* the key file was set again while the first worker ran, which enabled the
\* button, and the next click started a second worker
C27_TwoWorkersRunning ==
    /\ ocr_thread = 2
    /\ oRuns.started = 2
    /\ oRuns.delivered = 0
    /\ signals = <<>>
    /\ ~vision_ocr_btn

(***************************************************************************)
(* Merging rows of the text table: merge_selected_lines on regions that    *)
(* carry their text                                                        *)
(***************************************************************************)

MaxMergeRegions == 3

\* texts a region can hold: OCR lines are stripped, a line added by hand or
\* edited in the dialog keeps its blanks and newlines
MergeTexts == {<<LatinA>>, <<SPACE, LatinB>>, <<SPACE>>, <<LatinA, NL, LatinB>>}

\* the loop appending every text as it is
RECURSIVE MergedTexts_AsTheyAre(_, _, _)
MergedTexts_AsTheyAre(regions, rows, i) ==
    IF i > Len(regions) THEN <<>>
    ELSE (IF i - 1 \in rows THEN <<regions[i].text>> ELSE <<>>)
             \o MergedTexts_AsTheyAre(regions, rows, i + 1)

\* "for row in selected_rows: ... if text.strip(): merged_texts.append(text.strip())"
RECURSIVE MergedTexts(_, _, _)
MergedTexts(regions, rows, i) ==
    IF i > Len(regions) THEN <<>>
    ELSE (IF i - 1 \in rows /\ Strip(regions[i].text) # <<>>
          THEN <<Strip(regions[i].text)>> ELSE <<>>)
             \o MergedTexts(regions, rows, i + 1)

InitMerge ==
    /\ WrapIdle
    /\ LayoutIdle
    /\ GeomIdle
    /\ EditIdle
    /\ FaultIdle
    /\ OcrIdle
    /\ FontIdle
    /\ ThrottleIdle
    /\ mLast = NoMerge
    /\ text_regions \in
           SeqsUpTo({NewTextRegion(t, 18, TRUE) : t \in MergeTexts}, MaxMergeRegions)
    /\ jp_image_list = <<>>
    /\ jp_current_image_index = 0
    /\ jp_image_path = <<>>
    /\ selected_text_index = -1
    /\ dragMode = "none"
    /\ pixmap = NoPixmap
    /\ written = NoFile

\* merge_selected_lines with two or more rows highlighted; with fewer it
\* shows a warning and returns
merge_selected_lines_texts ==
    \E selected_rows \in SUBSET (0 .. Len(text_regions) - 1) :
        /\ Cardinality(selected_rows) >= 2
        /\ LET first_row == CHOOSE r \in selected_rows :
                                \A q \in selected_rows : r <= q
               merged_texts == MergedTexts(text_regions, selected_rows, 1)
           IN  IF merged_texts # <<>>
               THEN /\ text_regions' =
                           MergedRegions(
                               [text_regions EXCEPT
                                   ![first_row + 1].text = Join(merged_texts)],
                               selected_rows, first_row)
                    /\ Refresh(text_regions',
                               IF ValidRow(text_regions', first_row)
                               THEN first_row ELSE -1)
                    /\ dragMode' = "none"
                    /\ mLast' = [rows |-> selected_rows, before |-> text_regions,
                                 merged |-> TRUE]
               ELSE /\ mLast' = [rows |-> selected_rows, before |-> text_regions,
                                 merged |-> FALSE]
                    /\ UNCHANGED <<text_regions, selected_text_index, dragMode, pixmap>>
        /\ NoWrite
        /\ UNCHANGED notMerge

NextMerge == merge_selected_lines_texts

SpecMerge == InitMerge /\ [][NextMerge]_vars

\* the texts of the rows of `rows`, in list order, as they are
RECURSIVE SelectedTexts(_, _, _)
SelectedTexts(regions, rows, i) ==
    IF i > Len(regions) THEN <<>>
    ELSE (IF i - 1 \in rows THEN <<regions[i].text>> ELSE <<>>)
             \o SelectedTexts(regions, rows, i + 1)

\* the regions of the rows outside `rows`, in list order
RECURSIVE Unselected(_, _, _)
Unselected(regions, rows, i) ==
    IF i > Len(regions) THEN <<>>
    ELSE (IF i - 1 \in rows THEN <<>> ELSE <<regions[i]>>)
             \o Unselected(regions, rows, i + 1)

FirstRow(rows) == CHOOSE r \in rows : \A q \in rows : r <= q

\* C21 as stated: merging k >= 2 selected regions sets the text of the first
\* of them to the texts of the selected regions joined with newlines in list
\* order, deletes the other k - 1, and leaves the unselected regions as they
\* were and in their order.
C21_MergeJoinsSelectedTexts ==
    Cardinality(mLast.rows) >= 2 =>
        /\ Len(text_regions) = Len(mLast.before) - (Cardinality(mLast.rows) - 1)
        /\ text_regions[FirstRow(mLast.rows) + 1].text =
               Join(SelectedTexts(mLast.before, mLast.rows, 1))
        /\ Unselected(text_regions, {FirstRow(mLast.rows)}, 1) =
               Unselected(mLast.before, mLast.rows, 1)

\* C21: merging k >= 2 selected regions of which at least one has a text
\* that is not blank sets the text of the first selected region to the
\* stripped non-blank texts of the selected regions joined with newlines in
\* list order and leaves its other fields alone, deletes the other k - 1
\* selected regions, and leaves the unselected regions as they were and in
\* their order; when every selected text is blank the list is not changed.
C21_MergeJoinsStrippedTexts ==
    Cardinality(mLast.rows) >= 2 =>
        IF StrippedLines(SelectedTexts(mLast.before, mLast.rows, 1)) = <<>>
        THEN /\ ~mLast.merged
             /\ text_regions = mLast.before
        ELSE /\ mLast.merged
             /\ Len(text_regions) = Len(mLast.before) - (Cardinality(mLast.rows) - 1)
             /\ text_regions[FirstRow(mLast.rows) + 1] =
                    [mLast.before[FirstRow(mLast.rows) + 1] EXCEPT
                        !.text = Join(StrippedLines(
                                     SelectedTexts(mLast.before, mLast.rows, 1)))]
             /\ Unselected(text_regions, {FirstRow(mLast.rows)}, 1) =
                    Unselected(mLast.before, mLast.rows, 1)

\* " b" and "a" are merged into "b\na": the blank the user typed is gone
C21_LeadingBlankLost ==
    /\ mLast.merged
    /\ mLast.rows = {0, 1}
    /\ Len(mLast.before) = 2
    /\ mLast.before[1].text = <<SPACE, LatinB>>
    /\ mLast.before[2].text = <<LatinA>>
    /\ Len(text_regions) = 1
    /\ text_regions[1].text = <<LatinB, NL, LatinA>>

(***************************************************************************)
(* Resolving a font: load_font_for_overlay (module function and canvas     *)
(* method) and _load_pil_font_with_bold, over the states of the font files *)
(***************************************************************************)

\* the file a user-added font was registered with
CustomFile == "custom.ttf"

\* the font files whose state varies; every other candidate path is missing
FontFiles ==
    {CustomFile, "fonts/arial.ttf", "C:/Windows/Fonts/arial.ttf",
     "C:/Windows/Fonts/arialbd.ttf", "fonts/NanumGothic.ttf"}

\* os.path.exists is false; it is true and ImageFont.truetype raises; it is
\* true and the font loads
FileStates == {"missing", "broken", "ok"}

Families == {"Arial", "MyFont", "Courier New"}

\* custom_fonts: the names the user registered, each for CustomFile
Registries == {{}, {"MyFont"}, {"Arial"}}

FontSizes == {12}

NoFont == [raised |-> FALSE, kind |-> "none", path |-> "", size |-> 0]

\* "for path in paths: if exists: try: return truetype" without the handler
RECURSIVE FirstLoadable_NoHandler(_, _, _)
FirstLoadable_NoHandler(paths, font_size, fs) ==
    IF paths = <<>> THEN NoFont
    ELSE IF Head(paths) \notin FontFiles \/ fs[Head(paths)] = "missing"
         THEN FirstLoadable_NoHandler(Tail(paths), font_size, fs)
         ELSE IF fs[Head(paths)] = "ok"
              THEN [raised |-> FALSE, kind |-> "truetype", path |-> Head(paths),
                    size |-> font_size]
              ELSE [raised |-> TRUE, kind |-> "none", path |-> Head(paths), size |-> 0]

\* "for path in paths: if os.path.exists(path): try: return
\* ImageFont.truetype(path, font_size) except Exception: continue"
RECURSIVE FirstLoadable(_, _, _)
FirstLoadable(paths, font_size, fs) ==
    IF paths = <<>> THEN NoFont
    ELSE IF Head(paths) \notin FontFiles \/ fs[Head(paths)] = "missing"
         THEN FirstLoadable(Tail(paths), font_size, fs)
         ELSE IF fs[Head(paths)] = "ok"
              THEN [raised |-> FALSE, kind |-> "truetype", path |-> Head(paths),
                    size |-> font_size]
              ELSE FirstLoadable(Tail(paths), font_size, fs)

\* font_paths[font_family] for a family of system_fonts
SystemFontPaths(font_family) ==
    IF font_family = "Arial" THEN <<"fonts/arial.ttf", "C:/Windows/Fonts/arial.ttf">>
    ELSE IF font_family = "Courier New"
         THEN <<"fonts/cour.ttf", "C:/Windows/Fonts/cour.ttf">>
         ELSE <<>>

default_font_paths ==
    <<"fonts/NanumGothic.ttf", "fonts/malgun.ttf", "fonts/gulim.ttc",
      "C:/Windows/Fonts/NanumGothic.ttf", "C:/Windows/Fonts/malgun.ttf",
      "C:/Windows/Fonts/gulim.ttc", "C:/Windows/Fonts/batang.ttc",
      "C:/Windows/Fonts/dotum.ttc">>

\* ImageFont.load_default()
LoadDefault == [raised |-> FALSE, kind |-> "default", path |-> "", size |-> 0]

\* the first of a, b that raised or gave a font
OrElse(a, b) == IF a.raised \/ a.kind # "none" THEN a ELSE b

\* load_font_for_overlay: the registered file, then the files of the system
\* family, then the default files, then the built-in font
LoadFontForOverlay(font_family, font_size, custom_fonts, fs) ==
    OrElse(IF font_family \in custom_fonts
           THEN FirstLoadable(<<CustomFile>>, font_size, fs) ELSE NoFont,
           OrElse(FirstLoadable(SystemFontPaths(font_family), font_size, fs),
                  OrElse(FirstLoadable(default_font_paths, font_size, fs),
                         LoadDefault)))

\* candidate_paths of _load_pil_font_with_bold
CandidatePaths(font_family, bold_level) ==
    IF font_family = "Arial"
    THEN (IF bold_level >= 2 THEN <<"C:/Windows/Fonts/arialbd.ttf">> ELSE <<>>)
             \o (IF bold_level >= 1 THEN <<"C:/Windows/Fonts/arialbd.ttf">> ELSE <<>>)
             \o <<"C:/Windows/Fonts/arial.ttf">>
    ELSE <<>>

\* the try block swallows whatever it raises; then the canvas resolver
_load_pil_font_with_bold(font_family, font_size, bold_level, custom_fonts, fs) ==
    LET found == FirstLoadable(CandidatePaths(font_family, bold_level), font_size, fs)
    IN  IF ~found.raised /\ found.kind # "none" THEN found
        ELSE LoadFontForOverlay(font_family, font_size, custom_fonts, fs)

InitFont ==
    /\ WrapIdle
    /\ LayoutIdle
    /\ AppIdle
    /\ GeomIdle
    /\ EditIdle
    /\ FaultIdle
    /\ OcrIdle
    /\ MergeIdle
    /\ ThrottleIdle
    /\ fontIn \in [font_family : Families, font_size : FontSizes, bold_level : 0 .. 2,
                   custom_fonts : Registries, fs : [FontFiles -> FileStates]]
    /\ fontOut = NoFontCall

Resolved(entry, font) ==
    [entry |-> entry, raised |-> font.raised, kind |-> font.kind, path |-> font.path,
     size |-> font.size]

\* text_renderer.load_font_for_overlay(font_family, font_size, custom_fonts)
CallLoadFontForOverlay ==
    /\ fontOut.entry = "none"
    /\ fontOut' = Resolved("load_font_for_overlay",
                           LoadFontForOverlay(fontIn.font_family, fontIn.font_size,
                                              fontIn.custom_fonts, fontIn.fs))
    /\ UNCHANGED <<fontIn, notFont>>

\* ImageCanvas.load_font_for_overlay: the registry is owner.custom_fonts
CallCanvasLoadFont ==
    /\ fontOut.entry = "none"
    /\ fontOut' = Resolved("ImageCanvas.load_font_for_overlay",
                           LoadFontForOverlay(fontIn.font_family, fontIn.font_size,
                                              fontIn.custom_fonts, fontIn.fs))
    /\ UNCHANGED <<fontIn, notFont>>

CallLoadPilFontWithBold ==
    /\ fontOut.entry = "none"
    /\ fontOut' = Resolved("_load_pil_font_with_bold",
                           _load_pil_font_with_bold(
                               fontIn.font_family, fontIn.font_size,
                               fontIn.bold_level, fontIn.custom_fonts, fontIn.fs))
    /\ UNCHANGED <<fontIn, notFont>>

NextFont ==
    \/ CallLoadFontForOverlay
    \/ CallCanvasLoadFont
    \/ CallLoadPilFontWithBold

SpecFont == InitFont /\ [][NextFont]_vars

\* C22: for every family, size and bold level and every state of the font
\* files, each resolver returns a font, a file that loaded or the built-in
\* one, and does not raise.
C22_ResolverAlwaysReturnsFont ==
    fontOut.entry # "none" =>
        /\ ~fontOut.raised
        /\ \/ fontOut.kind = "default"
           \/ /\ fontOut.kind = "truetype"
              /\ fontIn.fs[fontOut.path] = "ok"
              /\ fontOut.size = fontIn.font_size

\* no file loads and some raise on loading: the bold-aware resolver gives
\* the built-in font
C22_EveryFileFails ==
    /\ fontOut.entry = "_load_pil_font_with_bold"
    /\ fontIn.font_family = "Arial"
    /\ fontIn.bold_level = 2
    /\ fontIn.custom_fonts = {"Arial"}
    /\ \A f \in FontFiles : fontIn.fs[f] = "broken"
    /\ fontOut.kind = "default"

\* C23: when the family asked for is a key of the registry of user-added
\* fonts and its file exists and loads, every resolver, plain or bold-aware,
\* returns that font ahead of any system or default file.
C23_CustomFontFirst ==
    (/\ fontOut.entry # "none"
     /\ fontIn.font_family \in fontIn.custom_fonts
     /\ fontIn.fs[CustomFile] = "ok")
    => (fontOut.kind = "truetype" /\ fontOut.path = CustomFile)

\* a font registered under the name "Arial" loads, and the bold-aware
\* resolver returns the system Arial
C23_SystemArialBeatsCustom ==
    /\ fontOut.entry = "_load_pil_font_with_bold"
    /\ fontIn.font_family = "Arial"
    /\ fontIn.bold_level = 0
    /\ fontIn.custom_fonts = {"Arial"}
    /\ fontIn.fs[CustomFile] = "ok"
    /\ fontIn.fs["C:/Windows/Fonts/arial.ttf"] = "ok"
    /\ fontOut.kind = "truetype"
    /\ fontOut.path = "C:/Windows/Fonts/arial.ttf"

-----------------------------------------------------------------------------
(* The throttle of pointer moves during a drag or a resize *)

\* QTime.msecsSinceStartOfDay() runs from 0 to MsPerDay - 1 and starts again
MsPerDay == 86400000

\* "if ... (current_time - self._last_move_update >= 5)"
ThrottleMs == 5

\* how long the run is followed, in ms
MaxElapsed == 10

\* the canvas is created a few ms before midnight, or at noon
StartTimes == { MsPerDay - 7, MsPerDay \div 2 }

\* time passes between two events in steps of these many ms
TickSteps == { 4, 5 }

\* where the pointer is reported during a gesture
ThrottlePointers == { <<62, 26>>, <<95, 35>>, <<120, 50>> }

\* QtCore.QTime.currentTime().msecsSinceStartOfDay()
msecsSinceStartOfDay == (startOfRun + elapsed) % MsPerDay

\* "not hasattr(self, '_last_move_update') or
\*  (current_time - self._last_move_update >= 5)"
Due(current_time, last_update) ==
    last_update = NoStamp \/ current_time - last_update >= ThrottleMs

\* a box has been dropped on the image; nothing is pressed yet
InitThrottle ==
    /\ WrapIdle
    /\ LayoutIdle
    /\ AppIdle
    /\ EditIdle
    /\ FaultIdle
    /\ OcrIdle
    /\ MergeIdle
    /\ FontIdle
    /\ gImg = [w |-> 124, h |-> 53]
    /\ gBox = DropBox(<<62, 26>>, gImg)
    /\ gOwned = TRUE
    /\ gSelected = FALSE
    /\ gMode = "none"
    /\ gHandle = ""
    /\ gStart = <<>>
    /\ gEdit = "drop"
    /\ gWrites = 1
    /\ startOfRun \in StartTimes
    /\ elapsed = 0
    /\ _last_resize_update = NoStamp
    /\ _last_move_update = NoStamp
    /\ recomputedAt = [moving |-> NoStamp, resizing |-> NoStamp]
    /\ tLast = NoMove

\* time passes
Tick ==
    \E d \in TickSteps :
        /\ elapsed + d <= MaxElapsed
        /\ elapsed' = elapsed + d
        /\ UNCHANGED <<startOfRun, _last_resize_update, _last_move_update,
                       recomputedAt, tLast, geomVars, notThrottle>>

\* ImageCanvas.mouseMoveEvent with a region selected and a gesture under way:
\* when the throttle lets the event through, the stamp of the gesture is set
\* and resize_text_box or move_text_box is called
mouseMoveEvent_throttled ==
    \E img_pos \in ThrottlePointers :
        /\ OnImage(img_pos, gImg)
        /\ gSelected /\ gMode # "none"
        /\ gOwned /\ gBox # <<>>
        /\ LET current_time == msecsSinceStartOfDay
               last_update == IF gMode = "resizing" THEN _last_resize_update
                              ELSE _last_move_update
               due == Due(current_time, last_update)
               dx == img_pos[1] - gStart[1][1]
               dy == img_pos[2] - gStart[1][2]
           IN  /\ tLast' = [kind |-> gMode,
                            since |-> IF recomputedAt[gMode] = NoStamp THEN NoStamp
                                      ELSE elapsed - recomputedAt[gMode],
                            recomputed |-> due]
               /\ IF due
                  THEN /\ recomputedAt' = [recomputedAt EXCEPT ![gMode] = elapsed]
                       /\ IF gMode = "resizing"
                          THEN /\ _last_resize_update' = current_time
                               /\ UNCHANGED _last_move_update
                          ELSE /\ _last_move_update' = current_time
                               /\ UNCHANGED _last_resize_update
                       /\ IF gStart = <<>>
                          THEN /\ gStart' = <<img_pos, gBox>>
                               /\ UNCHANGED <<gBox, gEdit, gWrites>>
                          ELSE IF dx = 0 /\ dy = 0
                          THEN UNCHANGED <<gStart, gBox, gEdit, gWrites>>
                          ELSE /\ gBox' = IF gMode = "resizing"
                                          THEN ResizedBox(gHandle, gStart[2], dx, dy, gImg)
                                          ELSE MovedBox(gStart[2], dx, dy, gImg)
                               /\ Wrote(IF gMode = "resizing" THEN "resize" ELSE "move")
                               /\ UNCHANGED gStart
                  ELSE UNCHANGED <<recomputedAt, _last_resize_update, _last_move_update,
                                   gStart, gBox, gEdit, gWrites>>
        /\ UNCHANGED <<startOfRun, elapsed, gImg, gOwned, gSelected, gMode, gHandle,
                       notThrottle>>

NextThrottle ==
    \/ GeomPress
    \/ mouseMoveEvent_throttled
    \/ GeomRelease
    \/ Tick

SpecThrottle == InitThrottle /\ [][NextThrottle]_vars

\* C26: during a drag or a resize a pointer move recomputes the box if and
\* only if it is the first of its kind or at least 5 ms have passed since the
\* last recompute of that kind, whatever the time of day.
C26_RecomputeIffFiveMsElapsed ==
    tLast.kind # "none" =>
        (tLast.recomputed <=> (tLast.since = NoStamp \/ tLast.since >= ThrottleMs))

\* a pointer move of a drag 5 ms after the last recompute, the first one after
\* midnight: it is ignored
C26_MoveIgnoredAfterMidnight ==
    /\ tLast.kind = "moving"
    /\ tLast.since = 5
    /\ ~tLast.recomputed
    /\ recomputedAt.moving = elapsed - 5
    /\ startOfRun + elapsed >= MsPerDay
    /\ _last_move_update = MsPerDay - 2
    /\ msecsSinceStartOfDay = 3

=============================================================================
